---------------------------- MODULE Spec2Model ----------------------------
(***************************************************************************)
(* A model of unalz-rs: the multi-volume reader (src/src/multivolume.rs),  *)
(* the PKWARE cipher (src/src/crypto.rs), the container parser             *)
(* (src/src/archive.rs) and the entry dispatcher (src/src/extract.rs).     *)
(*                                                                         *)
(* A u32 of the program is a tuple of its four bytes, least significant    *)
(* first (TLC's integers are narrower than a u32): <<b0, b1, b2, b3>> is   *)
(* b0 + 2^8 b1 + 2^16 b2 + 2^24 b3.  A u8 is an integer in 0..255.         *)
(***************************************************************************)
EXTENDS Integers, Sequences, FiniteSets, TLC

VARIABLES
    c_pc,       \* crypto scenario: position in the encrypt/decrypt round trip
    c_pwd1,     \* password of the encrypting cipher
    c_pwd2,     \* password of the decrypting cipher
    c_key1,     \* ZipCrypto.key of the encrypting cipher
    c_key2,     \* ZipCrypto.key of the decrypting cipher
    c_plain,    \* the original data of the round trip
    c_data,     \* the buffer that is encrypted, then decrypted, in place
    mv_pc,      \* "closed" before MultiVolumeReader::open, "open" after it
    volumes,    \* MultiVolumeReader.volumes: 0..n-1 -> Volume (with its file's bytes and cursor)
    cur_volume, \* MultiVolumeReader.cur_volume
    virtual_pos,\* MultiVolumeReader.virtual_pos
    tail,       \* MultiVolumeReader.tail
    mv_last,    \* the last call on the reader and what it returned
    mv_base,    \* the offset of the last seek if it succeeded (0 after open), else -1
    mv_got,     \* the bytes the reads since the last seek have returned
    p_pc,       \* parse: "closed", "scan" (in the while loop), "ok" or "err" (returned)
    p_err,      \* the AlzError parse returned, "none" if none
    entries,    \* AlzArchive.entries
    is_encrypted,    \* AlzArchive.is_encrypted
    is_data_descr,   \* AlzArchive.is_data_descr
    seen_alz_header, \* parse's local seen_alz_header
    p_sigs,     \* the signatures the loop of parse has read, in order
    x_fs,       \* the file system extract_entry works on
    x_stdout,   \* the bytes written to standard output
    x_last,     \* the last call of extract_entry: its arguments, what it returned,
                \* and the reader, file system and standard output it started from
    x_hist,     \* the calls of extract_entry on the bytes opened, in order
    x_table,    \* the entry table of an earlier parse of the bytes opened, if any
    x_all,      \* extract_all: "idle", "loop" (at the head of its for loop) or "done"
                \* (returned), its arguments, its clone of the entries, the index of
                \* the loop and what it returned
    r_pc,       \* extract_raw: "idle", "loop" (at the while test) or "done" (returned)
    r_call,     \* its arguments: the source and where it stood, size, the cipher, the buffer length
    r_pos,      \* the position of the source
    r_remaining,\* its local remaining
    r_crypto,   \* the cipher, as the chunks so far have left it
    r_hasher,   \* the state of its crc32fast hasher
    r_sink,     \* the bytes written to the writer
    r_ret,      \* what it returned
    z_pc,       \* extract_bzip2, stage 2: "idle", "loop" or "done" (returned)
    z_len,      \* the length of bz_data
    z_input_pos,\* its local input_pos
    z_sink,     \* the bytes written to the writer (decompressor.total_out() of them)
    z_hasher,   \* the state of its hasher
    z_last,     \* the last call of decompress: its result, consumed, produced
    z_steps,    \* the calls of decompress so far
    z_ret,      \* what extract_bzip2 returned
    e_pc,       \* alz_to_bzip2: "idle", "header" (top of the outer loop), "copy" (top
                \* of the inner loop), "reencoded" (returned Ok) or "done"
    e_in,       \* how alz_data was made: the payload bits of its blocks and its ending
    e_data,     \* alz_data
    e_rd,       \* the BitReader: byte_pos, bit_pos
    e_w,        \* the BitWriter: data, current, bit_pos
    e_hdr,      \* the bytes of the last header read, <<>> before it
    e_tail,     \* the inner loop was last left with fewer than 32 bits remaining
    e_ret,      \* what alz_to_bzip2 returned
    e_sink,     \* the bytes extract_bzip2 wrote to its writer
    d_pc,       \* extract_deflate: "idle", "loop" (at the top of its loop) or "done"
    d_call,     \* its arguments: compressed_size, the bytes the source holds, the buffer length
    d_src_left, \* the bytes the source still holds
    d_remaining,\* its local remaining
    d_in_avail, \* its local in_avail
    d_total_out,\* decompressor.total_out(): the bytes written to the writer
    d_last,     \* the last call of decompress: status, consumed, produced
    d_ret       \* what it returned

cryptoVars == <<c_pc, c_pwd1, c_pwd2, c_key1, c_key2, c_plain, c_data>>

mvVars == <<mv_pc, volumes, cur_volume, virtual_pos, tail, mv_last, mv_base, mv_got>>

parseVars == <<p_pc, p_err, entries, is_encrypted, is_data_descr, seen_alz_header, p_sigs>>

extractVars == <<x_fs, x_stdout, x_last, x_hist, x_table, x_all>>

rawVars == <<r_pc, r_call, r_pos, r_remaining, r_crypto, r_hasher, r_sink, r_ret>>

bunzipVars == <<z_pc, z_len, z_input_pos, z_sink, z_hasher, z_last, z_steps, z_ret>>

reencodeVars == <<e_pc, e_in, e_data, e_rd, e_w, e_hdr, e_tail, e_ret, e_sink>>

inflateVars == <<d_pc, d_call, d_src_left, d_remaining, d_in_avail, d_total_out, d_last, d_ret>>

stepVars == <<rawVars, bunzipVars, reencodeVars, inflateVars>>

\* What the actions of one extractor leave alone
rawRest == <<cryptoVars, mvVars, parseVars, extractVars, bunzipVars, reencodeVars, inflateVars>>
bunzipRest == <<cryptoVars, mvVars, parseVars, extractVars, rawVars, reencodeVars, inflateVars>>
reencodeRest == <<cryptoVars, mvVars, parseVars, extractVars, rawVars, bunzipVars, inflateVars>>
inflateRest == <<cryptoVars, mvVars, parseVars, extractVars, rawVars, bunzipVars, reencodeVars>>

vars == <<cryptoVars, mvVars, parseVars, extractVars, stepVars>>

-----------------------------------------------------------------------------
(* Bounds of the model. *)

MaxPwLen == 2
MaxDataLen == 2
MaxVolumes == 3     \* volume files of an archive
MaxTotalData == 2   \* data bytes of an archive, summed over its volumes
MaxBuf == 2         \* length of the buffer handed to read
MaxOver == 1        \* how far before offset 0 or past total_size a seek aims
MaxRecords == 3     \* records of the byte stream handed to the parser
MaxPayloadLen == 2  \* bytes of the payload of an entry, and of a decoder's output
MaxCalls == 3       \* calls of extract_entry on one archive
MaxSrcLen == 3      \* bytes of the source handed to extract_raw
MaxSkip == 1        \* bytes of the source before the position extract_raw starts at
MaxBzLen == 1       \* bytes of the stream handed to the bzip2 decoder
MaxProduced == 1    \* bytes one call of the bzip2 decoder produces
MaxDecodes == 2     \* calls of the bzip2 decoder in one extraction
MaxBlocks == 2      \* blocks of an ALZ-BZIP2 payload
MaxCompressed == 3  \* compressed_size of a DEFLATE payload, and the bytes its source holds
MaxInflated == 2    \* bytes an inflater produces from one payload
MaxAll == 3         \* entries of an archive handed to extract_all
MaxShort == 1       \* how far the size of a volume file lies from 8, 16 and 24 bytes

\* The byte values passwords and data are drawn from.
PwBytes == {97, 98, 255}
DataBytes == {104, 255}

RECURSIVE SeqsUpTo(_, _)
SeqsUpTo(S, n) ==
    IF n = 0 THEN {<<>>}
    ELSE LET shorter == SeqsUpTo(S, n - 1)
         IN  shorter \cup {Append(s, x) : s \in {t \in shorter : Len(t) = n - 1}, x \in S}

Passwords == SeqsUpTo(PwBytes, MaxPwLen)
Plaintexts == SeqsUpTo(DataBytes, MaxDataLen)

-----------------------------------------------------------------------------
(* Bit operations on u8 and u32. *)

\* a ^ b on 4-bit values, bit by bit
RECURSIVE XorBits(_, _, _)
XorBits(a, b, n) ==
    IF n = 0 THEN 0
    ELSE (((a % 2) + (b % 2)) % 2) + 2 * XorBits(a \div 2, b \div 2, n - 1)

\* The table of a ^ b on 4-bit values: Xor4[a + 1][b + 1]
Xor4 == [a \in 1..16 |-> [b \in 1..16 |-> XorBits(a - 1, b - 1, 4)] \o <<>>] \o <<>>

\* a ^ b on u8
Xor8(a, b) == (16 * Xor4[(a \div 16) + 1][(b \div 16) + 1]) + Xor4[(a % 16) + 1][(b % 16) + 1]

\* a ^ b on u32
Xor32(a, b) == <<Xor8(a[1], b[1]), Xor8(a[2], b[2]), Xor8(a[3], b[3]), Xor8(a[4], b[4])>>

\* a >> 1 on u32
Shr1(a) ==
    <<(a[1] \div 2) + 128 * (a[2] % 2), (a[2] \div 2) + 128 * (a[3] % 2),
      (a[3] \div 2) + 128 * (a[4] % 2), a[4] \div 2>>

\* a >> 8 on u32
Shr8(a) == <<a[2], a[3], a[4], 0>>

\* b as u32
U32OfByte(b) == <<b, 0, 0, 0>>

\* a.wrapping_add(b) on u32
WrappingAdd(a, b) ==
    LET s1 == a[1] + b[1]
        s2 == a[2] + b[2] + (s1 \div 256)
        s3 == a[3] + b[3] + (s2 \div 256)
        s4 == a[4] + b[4] + (s3 \div 256)
    IN  <<s1 % 256, s2 % 256, s3 % 256, s4 % 256>>

\* a.wrapping_mul(b) on u32
WrappingMul(a, b) ==
    LET p1 == a[1] * b[1]
        p2 == a[1] * b[2] + a[2] * b[1] + (p1 \div 256)
        p3 == a[1] * b[3] + a[2] * b[2] + a[3] * b[1] + (p2 \div 256)
        p4 == a[1] * b[4] + a[2] * b[3] + a[3] * b[2] + a[4] * b[1] + (p3 \div 256)
    IN  <<p1 % 256, p2 % 256, p3 % 256, p4 % 256>>

-----------------------------------------------------------------------------
(* crypto.rs *)

ENCR_HEADER_LEN == 12

\* 0xEDB88320
CRC32_POLY == <<32, 131, 184, 237>>

RECURSIVE Crc32TableEntry(_, _)
Crc32TableEntry(crc, j) ==
    IF j = 8 THEN crc
    ELSE Crc32TableEntry(IF crc[1] % 2 # 0 THEN Xor32(Shr1(crc), CRC32_POLY) ELSE Shr1(crc),
                         j + 1)

\* The table, computed once: entry i is CRC32_TABLE[i + 1]
CRC32_TABLE == [i \in 1..256 |-> Crc32TableEntry(U32OfByte(i - 1), 0)] \o <<>>

\* 305419896, 591751049, 878082192 = 0x12345678, 0x23456789, 0x34567890
InitialKeys == <<<<120, 86, 52, 18>>, <<137, 103, 69, 35>>, <<144, 120, 86, 52>>>>

\* 134775813 = 0x08088405
KEY1_MULTIPLIER == <<5, 132, 8, 8>>

crc32_byte(crc, b) == Xor32(CRC32_TABLE[Xor8(crc[1], b) + 1], Shr8(crc))

update_keys(key, c) ==
    LET k0 == crc32_byte(key[1], c)
        k1a == WrappingAdd(key[2], U32OfByte(k0[1]))
        k1 == WrappingAdd(WrappingMul(k1a, KEY1_MULTIPLIER), U32OfByte(1))
        k2 == crc32_byte(key[3], k1[4])
    IN  <<k0, k1, k2>>

decrypt_byte(key) ==
    LET lo == IF (key[3][1] \div 2) % 2 = 1 THEN key[3][1] ELSE key[3][1] + 2
        hi == key[3][2]
        lo1 == IF lo % 2 = 0 THEN lo + 1 ELSE lo - 1
        prod == ((lo * lo1) + (256 * (((hi * lo1) + (lo * hi)) % 256))) % 65536
    IN  prod \div 256

\* The element of a singleton set; {F(x) : x \in {e}} computes e once, and the
\* loops below compute the key of each iteration before they go on
Only(S) == CHOOSE x \in S : TRUE

RECURSIVE NewFrom(_, _, _)
NewFrom(key, password, i) ==
    IF i > Len(password) THEN key
    ELSE Only({NewFrom(k, password, i + 1) : k \in {update_keys(key, password[i])}})

ZipCryptoNew_SkipsFirstByte(password) == NewFrom(InitialKeys, password, 2)

\* ZipCrypto::new: the key of the cipher it returns
ZipCryptoNew(password) == NewFrom(InitialKeys, password, 1)

\* One iteration of ZipCrypto::decrypt's loop on the byte b:
\* <<the key afterwards, the byte stored back>>
decrypt_step_KeysFromCipherByte(key, b) ==
    LET temp == Xor8(b, decrypt_byte(key))
    IN  <<update_keys(key, b), temp>>

decrypt_step(key, b) ==
    LET temp == Xor8(b, decrypt_byte(key))
    IN  <<update_keys(key, temp), temp>>

\* ZipCrypto::decrypt: [key |-> the key afterwards, data |-> the buffer afterwards]
RECURSIVE DecryptFrom(_, _, _)
DecryptFrom(key, data, i) ==
    IF i > Len(data) THEN [key |-> key, data |-> data]
    ELSE Only({DecryptFrom(r[1], [data EXCEPT ![i] = r[2]], i + 1) :
                    r \in {decrypt_step(key, data[i])}})

decrypt(key, data) == DecryptFrom(key, data, 1)

\* The encryption loop of test_encrypt_decrypt_roundtrip
RECURSIVE EncryptFrom(_, _, _)
EncryptFrom(key, data, i) ==
    IF i > Len(data) THEN [key |-> key, data |-> data]
    ELSE Only({EncryptFrom(k, [data EXCEPT ![i] = Xor8(data[i], decrypt_byte(key))], i + 1) :
                    k \in {update_keys(key, data[i])}})

encrypt(key, data) == EncryptFrom(key, data, 1)

-----------------------------------------------------------------------------
(* multivolume.rs *)

MAX_VOLUMES == 1000
MULTIVOL_HEAD_SIZE == 8
MULTIVOL_TAIL_SIZE == 16

Min(a, b) == IF a < b THEN a ELSE b

\* a.saturating_sub(b)
SaturatingSub(a, b) == IF a > b THEN a - b ELSE 0

\* A u64 x of the reader is held as the integer x when x < 2^63 and as
\* x - 2^64 (negative) otherwise, which is what `as u64` of a negative i64 gives.
\* a <= b on u64
U64Le(a, b) ==
    IF a < 0 THEN (b < 0 /\ a <= b)
    ELSE (b < 0 \/ a <= b)

\* Volume::data_size
data_size(vol) == vol.file_size - vol.header_size - vol.tail_size

NumVolumes == Cardinality(DOMAIN volumes)

RECURSIVE SumDataSize(_, _)
SumDataSize(vols, n) == IF n = 0 THEN 0 ELSE SumDataSize(vols, n - 1) + data_size(vols[n - 1])

\* MultiVolumeReader::total_size
total_size == SumDataSize(volumes, NumVolumes)

\* The volume files the model opens: file i holds the size[i] bytes
\* (40 i + p) % 256 at its physical offsets p, so that every byte of every file,
\* band or data, is a different value.
FileBytes(i, size) == [p \in 1..size |-> (40 * i + (p - 1)) % 256]

\* The Volume that lines 67-76 push for file i of size file_size
OpenVolume(i, file_size) ==
    [bytes |-> FileBytes(i, file_size),
     file_size |-> file_size,
     header_size |-> IF i = 0 THEN 0 ELSE MULTIVOL_HEAD_SIZE,
     tail_size |-> MULTIVOL_TAIL_SIZE,
     pos |-> 0]

\* The loop with the header of the volume left out of phys_pos
RECURSIVE SeekLoop_ForgetsHeader(_, _, _, _)
SeekLoop_ForgetsHeader(vols, cur, remain, i) ==
    IF i >= Cardinality(DOMAIN vols)
    THEN [ok |-> FALSE, volumes |-> vols, cur_volume |-> cur]
    ELSE IF U64Le(remain, data_size(vols[i]))
         THEN [ok |-> TRUE, volumes |-> [vols EXCEPT ![i].pos = remain], cur_volume |-> i]
         ELSE SeekLoop_ForgetsHeader(vols, cur, remain - data_size(vols[i]), i + 1)

\* seek_to_virtual's loop from volume i on:
\* [ok |-> it returned Ok, volumes, cur_volume |-> the fields afterwards]
RECURSIVE SeekLoop(_, _, _, _)
SeekLoop(vols, cur, remain, i) ==
    IF i >= Cardinality(DOMAIN vols)
    THEN [ok |-> FALSE, volumes |-> vols, cur_volume |-> cur]
    ELSE IF U64Le(remain, data_size(vols[i]))
         THEN [ok |-> TRUE,
               volumes |-> [vols EXCEPT ![i].pos = remain + vols[i].header_size],
               cur_volume |-> i]
         ELSE SeekLoop(vols, cur, remain - data_size(vols[i]), i + 1)

seek_to_virtual_NeverFails(vols, cur, offset) ==
    LET r == SeekLoop(vols, cur, offset, 0)
    IN  [ok |-> TRUE, volumes |-> r.volumes, cur_volume |-> r.cur_volume,
         virtual_pos |-> offset]

\* MultiVolumeReader::seek_to_virtual:
\* [ok, volumes, cur_volume, virtual_pos |-> the fields afterwards]
seek_to_virtual(vols, cur, offset) ==
    LET r == SeekLoop(vols, cur, offset, 0)
    IN  [ok |-> r.ok, volumes |-> r.volumes, cur_volume |-> r.cur_volume,
         virtual_pos |-> offset]

\* data_end of read: where the data of a volume ends in its file
DataEnd_ForgetsTail(vol) == vol.file_size

DataEnd(vol) == vol.file_size - vol.tail_size

\* The loop of read, lines 167-191:
\* [volumes, cur_volume, virtual_pos |-> the fields afterwards, out |-> buf[..total_read]]
RECURSIVE ReadLoop(_, _, _, _, _)
ReadLoop(vols, cur, vpos, out, buflen) ==
    IF ~(Len(out) < buflen /\ cur < Cardinality(DOMAIN vols))
    THEN [volumes |-> vols, cur_volume |-> cur, virtual_pos |-> vpos, out |-> out]
    ELSE LET vol == vols[cur]
             phys_pos == vol.pos
             data_end == DataEnd(vol)
             avail == SaturatingSub(data_end, phys_pos)
         IN  IF avail = 0
             THEN IF cur + 1 >= Cardinality(DOMAIN vols)
                  THEN [volumes |-> vols, cur_volume |-> cur + 1, virtual_pos |-> vpos,
                        out |-> out]
                  ELSE ReadLoop([vols EXCEPT ![cur + 1].pos = vols[cur + 1].header_size],
                                cur + 1, vpos, out, buflen)
             ELSE LET to_read == Min(avail, buflen - Len(out))
                      \* the file's own read: what is left of it, at most to_read
                      n == Min(to_read, SaturatingSub(vol.file_size, phys_pos))
                  IN  IF n = 0
                      THEN [volumes |-> vols, cur_volume |-> cur, virtual_pos |-> vpos,
                            out |-> out]
                      ELSE ReadLoop([vols EXCEPT ![cur].pos = phys_pos + n], cur, vpos + n,
                                    out \o SubSeq(vol.bytes, phys_pos + 1, phys_pos + n),
                                    buflen)

\* <MultiVolumeReader as Read>::read
read(vols, cur, vpos, buflen) ==
    IF buflen = 0 \/ cur >= Cardinality(DOMAIN vols)
    THEN [volumes |-> vols, cur_volume |-> cur, virtual_pos |-> vpos, out |-> <<>>]
    ELSE ReadLoop(vols, cur, vpos, <<>>, buflen)

SeekTarget_Saturating(from, delta, vpos, total) ==
    CASE from = "Start" -> [ok |-> TRUE, new_pos |-> delta]
      [] from = "Current" ->
            IF delta >= 0 THEN [ok |-> TRUE, new_pos |-> vpos + delta]
            ELSE IF U64Le(-delta, vpos) THEN [ok |-> TRUE, new_pos |-> vpos - (-delta)]
                 ELSE [ok |-> TRUE, new_pos |-> 0]
      [] from = "End" -> [ok |-> TRUE, new_pos |-> IF total + delta < 0 THEN 0 ELSE total + delta]

\* The offset <MultiVolumeReader as Seek>::seek computes, lines 199-216:
\* [ok |-> FALSE] for a seek before the start
SeekTarget(from, delta, vpos, total) ==
    CASE from = "Start" -> [ok |-> TRUE, new_pos |-> delta]
      [] from = "Current" ->
            IF delta >= 0 THEN [ok |-> TRUE, new_pos |-> vpos + delta]
            ELSE IF U64Le(-delta, vpos) THEN [ok |-> TRUE, new_pos |-> vpos - (-delta)]
                 ELSE [ok |-> FALSE, new_pos |-> 0]
      [] from = "End" -> [ok |-> TRUE, new_pos |-> total + delta]

-----------------------------------------------------------------------------
(* Before anything is opened *)

CryptoIdle ==
    /\ c_pc = "start"
    /\ c_pwd1 = <<>>
    /\ c_pwd2 = <<>>
    /\ c_key1 = InitialKeys
    /\ c_key2 = InitialKeys
    /\ c_plain = <<>>
    /\ c_data = <<>>

MvIdle ==
    /\ mv_pc = "closed"
    /\ volumes = <<>>
    /\ cur_volume = 0
    /\ virtual_pos = 0
    /\ tail = <<>>
    /\ mv_last = [op |-> "none"]
    /\ mv_base = 0
    /\ mv_got = <<>>

ParseIdle ==
    /\ p_pc = "closed"
    /\ p_err = "none"
    /\ entries = <<>>
    /\ is_encrypted = FALSE
    /\ is_data_descr = FALSE
    /\ seen_alz_header = FALSE
    /\ p_sigs = <<>>

\* The destination directory /D handed to extract_entry, a directory /O outside
\* it, and a symbolic link /D/s to /O that was there before the extraction
DEST_DIR == <<<<68>>>>
OUTSIDE_DIR == <<<<79>>>>
LINK_NAME == <<115>>

\* The file system: the directories, the files with their bytes, the symbolic
\* links with their targets, all under their canonical paths
InitialFs ==
    [dirs |-> {<<>>, DEST_DIR, OUTSIDE_DIR},
     files |-> {},
     links |-> {[path |-> Append(DEST_DIR, LINK_NAME), target |-> <<47, 79>>]}]

ExtractIdle ==
    /\ x_fs = InitialFs
    /\ x_stdout = <<>>
    /\ x_last = [op |-> "none"]
    /\ x_hist = <<>>
    /\ x_table = [some |-> FALSE, entries |-> <<>>]
    /\ x_all = [pc |-> "idle", password |-> [some |-> FALSE, val |-> <<>>],
                pipe_mode |-> FALSE, entries |-> <<>>, i |-> 0, ret |-> "none"]

\* No call of extract_raw yet
RawIdle ==
    /\ r_pc = "idle"
    /\ r_call = [source |-> <<>>, pos |-> 0, size |-> 0,
                 crypto |-> [some |-> FALSE, key |-> InitialKeys], buf |-> 0]
    /\ r_pos = 0
    /\ r_remaining = 0
    /\ r_crypto = [some |-> FALSE, key |-> InitialKeys]
    /\ r_hasher = <<255, 255, 255, 255>>
    /\ r_sink = <<>>
    /\ r_ret = [err |-> "none", crc |-> <<0, 0, 0, 0>>]

\* No call of extract_bzip2 yet
BunzipIdle ==
    /\ z_pc = "idle"
    /\ z_len = 0
    /\ z_input_pos = 0
    /\ z_sink = <<>>
    /\ z_hasher = <<255, 255, 255, 255>>
    /\ z_last = [status |-> "none", consumed |-> 0, produced |-> 0]
    /\ z_steps = 0
    /\ z_ret = [err |-> "none", crc |-> <<0, 0, 0, 0>>]

\* No call of alz_to_bzip2 yet
ReencodeIdle ==
    /\ e_pc = "idle"
    /\ e_in = [blocks |-> <<>>, ending |-> "none"]
    /\ e_data = <<>>
    /\ e_rd = [byte_pos |-> 0, bit_pos |-> 0]
    /\ e_w = [data |-> <<>>, current |-> 0, bit_pos |-> 0]
    /\ e_hdr = <<>>
    /\ e_tail = FALSE
    /\ e_ret = [err |-> "none", why |-> "", out |-> <<>>]
    /\ e_sink = <<>>

\* No call of extract_deflate yet
InflateIdle ==
    /\ d_pc = "idle"
    /\ d_call = [compressed_size |-> 0, source |-> 0, buf |-> 0]
    /\ d_src_left = 0
    /\ d_remaining = 0
    /\ d_in_avail = 0
    /\ d_total_out = 0
    /\ d_last = [status |-> "none", consumed |-> 0, produced |-> 0]
    /\ d_ret = "none"

StepIdle == RawIdle /\ BunzipIdle /\ ReencodeIdle /\ InflateIdle

-----------------------------------------------------------------------------
(* The reader as a state machine: open, then any sequence of reads and seeks. *)

\* The data sizes of the volumes of a well-formed archive of n volumes, which
\* holds at most MaxTotalData bytes of data between the bands of its volumes.
RECURSIVE SumTo(_, _)
SumTo(d, n) == IF n = 0 THEN 0 ELSE SumTo(d, n - 1) + d[n - 1]

VolumeSizes(n) ==
    {d \in [0..(n - 1) -> 0..MaxTotalData] : SumTo(d, n) <= MaxTotalData}

FileSizeOf(n, i, d) ==
    (IF i = 0 THEN 0 ELSE MULTIVOL_HEAD_SIZE) + d + (IF i = n - 1 THEN 0 ELSE MULTIVOL_TAIL_SIZE)

\* MultiVolumeReader::open on files of the sizes given
MvOpen ==
    /\ mv_pc = "closed"
    /\ \E n \in 1..Min(MaxVolumes, MAX_VOLUMES) : \E d \in VolumeSizes(n) :
        LET pushed == [i \in 0..(n - 1) |-> OpenVolume(i, FileSizeOf(n, i, d[i]))]
            \* Last volume has no tail.
            vols0 == [pushed EXCEPT ![n - 1].tail_size = 0]
            vol0 == vols0[0]
            \* Read the 16-byte file tail from the first volume.
            read_tail == vol0.file_size >= 16
            vols1 == IF read_tail THEN [vols0 EXCEPT ![0].pos = vol0.file_size] ELSE vols0
            r == seek_to_virtual(vols1, 0, 0)
        IN  /\ r.ok
            /\ volumes' = r.volumes
            /\ cur_volume' = r.cur_volume
            /\ virtual_pos' = r.virtual_pos
            /\ tail' = IF read_tail
                       THEN SubSeq(vol0.bytes, vol0.file_size - 15, vol0.file_size)
                       ELSE [k \in 1..16 |-> 0]
    /\ mv_pc' = "open"
    /\ mv_last' = [op |-> "open"]
    /\ mv_base' = 0
    /\ mv_got' = <<>>
    /\ UNCHANGED <<cryptoVars, parseVars, extractVars, stepVars>>

MvRead ==
    /\ mv_pc = "open"
    /\ \E buflen \in 0..MaxBuf :
        LET r == read(volumes, cur_volume, virtual_pos, buflen)
        IN  /\ volumes' = r.volumes
            /\ cur_volume' = r.cur_volume
            /\ virtual_pos' = r.virtual_pos
            /\ mv_last' = [op |-> "read", empty_buf |-> (buflen = 0), ok |-> TRUE,
                            val |-> Len(r.out)]
            /\ mv_got' = mv_got \o r.out
    /\ UNCHANGED <<mv_pc, tail, mv_base>>
    /\ UNCHANGED <<cryptoVars, parseVars, extractVars, stepVars>>

\* What a seek was asked for, relative to the reader it was called on
SeekCase(from, delta, vpos, total) ==
    [from |-> from,
     \* the target lies before offset 0
     before_start |-> \/ (from = "Current" /\ delta < 0 /\ ~U64Le(-delta, vpos))
                      \/ (from = "End" /\ delta < 0 - total),
     \* SeekFrom::Start of an offset past total_size, or of total_size itself
     past_end |-> (from = "Start" /\ delta > total),
     at_end |-> (from = "Start" /\ delta = total)]

\* <MultiVolumeReader as Seek>::seek(SeekFrom::from(delta))
Seek(from, delta) ==
    LET t == SeekTarget(from, delta, virtual_pos, total_size)
        r == seek_to_virtual(volumes, cur_volume, t.new_pos)
        case == SeekCase(from, delta, virtual_pos, total_size)
    IN  /\ t.new_pos \in (0 - MaxOver)..(total_size + MaxOver)
        /\ IF ~t.ok
           THEN /\ mv_last' = [op |-> "seek", case |-> case, ok |-> FALSE,
                               err |-> "InvalidInput"]
                /\ mv_base' = -1
                /\ UNCHANGED <<volumes, cur_volume, virtual_pos>>
           ELSE /\ volumes' = r.volumes
                /\ cur_volume' = r.cur_volume
                /\ virtual_pos' = r.virtual_pos
                /\ mv_last' = IF r.ok
                              THEN [op |-> "seek", case |-> case, ok |-> TRUE,
                                    val |-> r.virtual_pos]
                              ELSE [op |-> "seek", case |-> case, ok |-> FALSE,
                                    err |-> "Other"]
                /\ mv_base' = IF r.ok THEN r.virtual_pos ELSE -1

MvSeekStart ==
    /\ mv_pc = "open"
    /\ \E p \in 0..(total_size + MaxOver) : Seek("Start", p)
    /\ mv_got' = <<>>
    /\ UNCHANGED <<mv_pc, tail>>
    /\ UNCHANGED <<cryptoVars, parseVars, extractVars, stepVars>>

MvSeekCurrent ==
    /\ mv_pc = "open"
    /\ \E d \in (0 - total_size - MaxOver)..(total_size + MaxOver) : Seek("Current", d)
    /\ mv_got' = <<>>
    /\ UNCHANGED <<mv_pc, tail>>
    /\ UNCHANGED <<cryptoVars, parseVars, extractVars, stepVars>>

MvSeekEnd ==
    /\ mv_pc = "open"
    /\ \E d \in (0 - total_size - MaxOver)..MaxOver : Seek("End", d)
    /\ mv_got' = <<>>
    /\ UNCHANGED <<mv_pc, tail>>
    /\ UNCHANGED <<cryptoVars, parseVars, extractVars, stepVars>>

MvInit == MvIdle /\ CryptoIdle /\ ParseIdle /\ ExtractIdle /\ StepIdle

MvNext == MvOpen \/ MvRead \/ MvSeekStart \/ MvSeekCurrent \/ MvSeekEnd

SpecMV == MvInit /\ [][MvNext]_vars

\* The reader under calls that all return Ok: a read always does, a seek when
\* its target is neither before offset 0 nor past total_size
MvSeekStartOk == MvSeekStart /\ mv_last'.ok

MvSeekCurrentOk == MvSeekCurrent /\ mv_last'.ok

MvSeekEndOk == MvSeekEnd /\ mv_last'.ok

MvOkNext == MvOpen \/ MvRead \/ MvSeekStartOk \/ MvSeekCurrentOk \/ MvSeekEndOk

SpecMVOk == MvInit /\ [][MvOkNext]_vars

-----------------------------------------------------------------------------
(* MultiVolumeReader::open on volume files of any size, also ones shorter than
   their bands. The subtractions of Volume::data_size are on u64: a build with
   overflow checks panics where one goes below 0, a build without them wraps
   (the model holds the wrapped value as a negative integer). *)

\* file_size - header_size - tail_size goes below 0
Underflows(vol) == vol.file_size < vol.header_size + vol.tail_size

\* The sizes of the volume files: 0, and the sizes around 8, 16 and 24 bytes
FileSizes ==
    {0} \cup {t - k : t \in {8, 16, 24}, k \in 0..MaxShort}
        \cup {t + k : t \in {8, 16, 24}, k \in 0..MaxShort}

\* The volume seek_to_virtual's loop stops at for the offset remain, from
\* volume i on; the number of volumes when it runs through all of them
RECURSIVE SeekStop(_, _, _)
SeekStop(vols, remain, i) ==
    IF i >= Cardinality(DOMAIN vols) THEN i
    ELSE IF U64Le(remain, data_size(vols[i])) THEN i
    ELSE SeekStop(vols, remain - data_size(vols[i]), i + 1)

\* seek_to_virtual evaluates data_size of a volume whose size underflows
SeekPanics(vols, offset) ==
    \E j \in DOMAIN vols : j <= SeekStop(vols, offset, 0) /\ Underflows(vols[j])

\* MultiVolumeReader::open on n files of the sizes f, in a build with or
\* without overflow checks
MvOpenAny ==
    /\ mv_pc = "closed"
    /\ \E n \in 1..Min(MaxVolumes, MAX_VOLUMES) : \E f \in [0..(n - 1) -> FileSizes] :
       \E checks \in BOOLEAN :
        LET pushed == [i \in 0..(n - 1) |-> OpenVolume(i, f[i])]
            \* Last volume has no tail.
            vols0 == [pushed EXCEPT ![n - 1].tail_size = 0]
            vol0 == vols0[0]
            read_tail == vol0.file_size >= 16
            vols1 == IF read_tail THEN [vols0 EXCEPT ![0].pos = vol0.file_size] ELSE vols0
            r == seek_to_virtual(vols1, 0, 0)
            panics == checks /\ SeekPanics(vols1, 0)
        IN  /\ volumes' = IF panics THEN vols1 ELSE r.volumes
            /\ cur_volume' = IF panics THEN 0 ELSE r.cur_volume
            /\ virtual_pos' = 0
            /\ tail' = IF read_tail
                       THEN SubSeq(vol0.bytes, vol0.file_size - 15, vol0.file_size)
                       ELSE [k \in 1..16 |-> 0]
            /\ mv_pc' = IF panics THEN "panicked" ELSE IF r.ok THEN "open" ELSE "failed"
            /\ mv_last' = [op |-> "open", sizes |-> f, checks |-> checks,
                            ok |-> ~panics /\ r.ok,
                            err |-> IF panics THEN "panic"
                                    ELSE IF r.ok THEN "none" ELSE "CorruptedFile"]
    /\ mv_base' = 0
    /\ mv_got' = <<>>
    /\ UNCHANGED <<cryptoVars, parseVars, extractVars, stepVars>>

\* MultiVolumeReader::total_size on the reader that open returned
MvTotalSize ==
    /\ mv_pc = "open"
    /\ LET panics == mv_last.checks /\ \E j \in DOMAIN volumes : Underflows(volumes[j])
       IN  /\ mv_pc' = IF panics THEN "panicked" ELSE "open"
           /\ mv_last' = [mv_last EXCEPT !.op = "total_size", !.ok = ~panics,
                                          !.err = IF panics THEN "panic" ELSE "none"]
           /\ mv_base' = IF panics THEN -1 ELSE total_size
    /\ UNCHANGED <<volumes, cur_volume, virtual_pos, tail, mv_got>>
    /\ UNCHANGED <<cryptoVars, parseVars, extractVars, stepVars>>

\* seek(SeekFrom::Start(p)) on the reader that open returned
MvSeekAny ==
    /\ mv_pc = "open"
    /\ \E p \in 0..(MaxTotalData + MaxOver) :
        LET r == seek_to_virtual(volumes, cur_volume, p)
            panics == mv_last.checks /\ SeekPanics(volumes, p)
        IN  /\ volumes' = IF panics THEN volumes ELSE r.volumes
            /\ cur_volume' = IF panics THEN cur_volume ELSE r.cur_volume
            /\ virtual_pos' = r.virtual_pos
            /\ mv_pc' = IF panics THEN "panicked" ELSE "open"
            /\ mv_last' = [mv_last EXCEPT !.op = "seek", !.ok = ~panics /\ r.ok,
                                           !.err = IF panics THEN "panic"
                                                   ELSE IF r.ok THEN "none" ELSE "Other"]
            /\ mv_base' = IF ~panics /\ r.ok THEN r.virtual_pos ELSE -1
    /\ mv_got' = <<>>
    /\ UNCHANGED tail
    /\ UNCHANGED <<cryptoVars, parseVars, extractVars, stepVars>>

VolumesNext == MvOpenAny \/ MvTotalSize \/ MvSeekAny

SpecVolumes == MvInit /\ [][VolumesNext]_vars

-----------------------------------------------------------------------------
(* archive.rs *)

\* ALZ signatures (little-endian u32): 0x015a4c41 "ALZ\x01", ...
SIG_ALZ_FILE_HEADER == <<65, 76, 90, 1>>
SIG_LOCAL_FILE_HEADER == <<66, 76, 90, 1>>
SIG_CENTRAL_DIRECTORY == <<67, 76, 90, 1>>
SIG_END_OF_CENTRAL_DIR == <<67, 76, 90, 2>>
SIG_COMMENT == <<69, 76, 90, 1>>
SIG_SPLIT_MARKER == <<67, 76, 90, 3>>

KnownSignatures ==
    {SIG_ALZ_FILE_HEADER, SIG_LOCAL_FILE_HEADER, SIG_CENTRAL_DIRECTORY,
     SIG_END_OF_CENTRAL_DIR, SIG_COMMENT, SIG_SPLIT_MARKER}

DESC_ENCRYPTED == 1
DESC_DATA_DESCR == 8
ATTR_DIRECTORY == 16
ATTR_ARCHIVE == 32
ATTR_SYMLINK == 64

\* x & (the single bit mask) != 0 on u8
HasBit(x, mask) == (x \div mask) % 2 = 1

\* CompressionMethod::from_byte
from_byte(b) ==
    CASE b = 0 -> [kind |-> "Store", n |-> 0]
      [] b = 1 -> [kind |-> "Bzip2", n |-> 1]
      [] b = 2 -> [kind |-> "Deflate", n |-> 2]
      [] OTHER -> [kind |-> "Unknown", n |-> b]

\* AlzFileEntry::is_encrypted, is_directory, is_symlink, has_data_descriptor
is_encrypted_entry(e) == HasBit(e.file_descriptor, DESC_ENCRYPTED)
is_directory(e) == HasBit(e.file_attribute, ATTR_DIRECTORY)
is_symlink(e) == HasBit(e.file_attribute, ATTR_SYMLINK)
has_data_descriptor(e) == HasBit(e.file_descriptor, DESC_DATA_DESCR)

\* u16::from_le_bytes, u32::from_le_bytes as u64, u64::from_le_bytes: the value
\* of little-endian bytes (the model's streams keep it below 2^31)
RECURSIVE LeValue(_)
LeValue(bytes) ==
    IF bytes = <<>> THEN 0 ELSE bytes[1] + 256 * LeValue(Tail(bytes))

\* cp949_to_utf8: bytes that are ASCII are valid UTF-8 and pass through; what the
\* EUC-KR decoder makes of other bytes is not modelled
cp949_to_utf8(bytes) ==
    IF \A i \in 1..Len(bytes) : bytes[i] < 128 THEN bytes ELSE <<"euc-kr">> \o bytes

\* The reader of an archive, as one value
ReaderOf(vols, cur, vpos) == [volumes |-> vols, cur_volume |-> cur, virtual_pos |-> vpos]

\* Read::read_exact on the reader rd: [ok, rd |-> the reader afterwards, out]
read_exact(rd, n) ==
    LET r == read(rd.volumes, rd.cur_volume, rd.virtual_pos, n)
    IN  [ok |-> Len(r.out) = n,
         rd |-> ReaderOf(r.volumes, r.cur_volume, r.virtual_pos),
         out |-> r.out]

\* Seek::seek on the reader rd: [ok, rd |-> the reader afterwards]
seek(rd, from, delta) ==
    LET t == SeekTarget(from, delta, rd.virtual_pos, SumDataSize(rd.volumes,
                                                    Cardinality(DOMAIN rd.volumes)))
        r == seek_to_virtual(rd.volumes, rd.cur_volume, t.new_pos)
    IN  IF ~t.ok THEN [ok |-> FALSE, rd |-> rd]
        ELSE [ok |-> r.ok, rd |-> ReaderOf(r.volumes, r.cur_volume, r.virtual_pos)]

\* What a step of the parser returns: the error ("none" for Ok), the reader
\* afterwards, and the archive fields afterwards
ParseStep(err, rd, ents, enc, dd) ==
    [err |-> err, rd |-> rd, entries |-> ents, is_encrypted |-> enc, is_data_descr |-> dd]

\* Size field width from descriptor bits 4-7; -1 for InvalidSizeFieldWidth
ByteLen(file_descriptor) ==
    LET hi == file_descriptor \div 16
    IN  CASE hi = 0 -> 0
          [] hi = 1 -> 1
          [] hi = 2 -> 2
          [] hi = 4 -> 4
          [] hi = 8 -> 8
          [] OTHER -> -1

\* self.reader.seek(SeekFrom::Current(skip)) of read_local_file_header: the
\* payload is stepped over by a seek
SkipPayload_StaysPut(rd, csize) == seek(rd, "Current", 0)

SkipPayload(rd, csize) == seek(rd, "Current", csize)

\* AlzArchive::read_local_file_header, from line 224 (the file name) on
ReadNameAndSkip(rd, ents, enc, dd, head, method, crc, csize, usize) ==
    LET file_name_length == LeValue(SubSeq(head, 1, 2))
        file_descriptor == head[8]
        name == read_exact(rd, file_name_length)
        chk == IF HasBit(file_descriptor, DESC_ENCRYPTED)
               THEN read_exact(name.rd, ENCR_HEADER_LEN)
               ELSE [ok |-> TRUE, rd |-> name.rd, out |-> <<>>]
        \* stream_position is seek(SeekFrom::Current(0))
        pos == seek(chk.rd, "Current", 0)
        skip == SkipPayload(pos.rd, csize)
        entry == [file_name |-> cp949_to_utf8(name.out),
                  file_attribute |-> head[3],
                  file_time_date |-> SubSeq(head, 4, 7),
                  file_descriptor |-> file_descriptor,
                  compression_method |-> method,
                  file_crc |-> crc,
                  compressed_size |-> csize,
                  uncompressed_size |-> usize,
                  data_pos |-> pos.rd.virtual_pos,
                  enc_check |-> chk.out]
    IN  IF file_name_length = 0 \/ file_name_length > 4096
        THEN ParseStep("InvalidFilenameLength", rd, ents, enc, dd)
        ELSE IF ~name.ok THEN ParseStep("Io", name.rd, ents, enc, dd)
        ELSE IF ~chk.ok THEN ParseStep("Io", chk.rd, ents, enc, dd)
        ELSE IF ~pos.ok THEN ParseStep("Io", pos.rd, ents, enc, dd)
        ELSE IF ~skip.ok THEN ParseStep("Io", skip.rd, ents, enc, dd)
        ELSE ParseStep("none", skip.rd, Append(ents, entry), enc, dd)

\* AlzArchive::read_local_file_header
read_local_file_header(rd0, ents, enc0, dd0) ==
    LET head == read_exact(rd0, 9)
        file_descriptor == head.out[8]
        enc == enc0 \/ HasBit(file_descriptor, DESC_ENCRYPTED)
        dd == dd0 \/ HasBit(file_descriptor, DESC_DATA_DESCR)
        byte_len == ByteLen(file_descriptor)
        cm == read_exact(head.rd, 1)
        unk == read_exact(cm.rd, 1)
        crc_buf == read_exact(unk.rd, 4)
        csz == read_exact(crc_buf.rd, byte_len)
        usz == read_exact(csz.rd, byte_len)
    IN  IF ~head.ok THEN ParseStep("Io", head.rd, ents, enc0, dd0)
        ELSE IF byte_len < 0 THEN ParseStep("InvalidSizeFieldWidth", head.rd, ents, enc, dd)
        ELSE IF byte_len = 0
        THEN ReadNameAndSkip(head.rd, ents, enc, dd, head.out,
                             from_byte(0), <<0, 0, 0, 0>>, 0, 0)
        ELSE IF ~cm.ok THEN ParseStep("Io", cm.rd, ents, enc, dd)
        ELSE IF ~unk.ok THEN ParseStep("Io", unk.rd, ents, enc, dd)
        ELSE IF ~crc_buf.ok THEN ParseStep("Io", crc_buf.rd, ents, enc, dd)
        ELSE IF ~csz.ok THEN ParseStep("Io", csz.rd, ents, enc, dd)
        ELSE IF ~usz.ok THEN ParseStep("Io", usz.rd, ents, enc, dd)
        ELSE ReadNameAndSkip(usz.rd, ents, enc, dd, head.out, from_byte(cm.out[1]),
                             crc_buf.out, LeValue(csz.out), LeValue(usz.out))

\* AlzArchive::read_alz_header and read_central_directory: n bytes are read
ReadAndDrop(rd, n, ents, enc, dd) ==
    LET r == read_exact(rd, n)
    IN  ParseStep(IF r.ok THEN "none" ELSE "Io", r.rd, ents, enc, dd)

\* AlzArchive::skip_comment_section
skip_comment_section(rd, total, ents, enc, dd) ==
    IF total > 4
    THEN LET r == seek(rd, "Current", total - 4)
         IN  ParseStep(IF r.ok THEN "none" ELSE "Io", r.rd, ents, enc, dd)
    ELSE ParseStep("none", rd, ents, enc, dd)

\* The arm of parse's match for an unknown signature, lines 148-154
UnknownSignatureError_IgnoresHeader(seen) == "NotAlzFile"

UnknownSignatureError(seen) == IF seen THEN "CorruptedFile" ELSE "NotAlzFile"

-----------------------------------------------------------------------------
(* AlzArchive::from_bytes and the loop of AlzArchive::parse, one action for each
   arm of its match. *)

\* The records the byte streams handed to the parser are made of
RecAlzHeader == SIG_ALZ_FILE_HEADER \o <<10, 0, 0, 0>>
\* a local file header without size fields: name_len 1, attribute 0x20, name "a"
RecLocalNoSizes == SIG_LOCAL_FILE_HEADER \o <<1, 0, ATTR_ARCHIVE, 1, 2, 3, 4, 0, 0>> \o <<97>>
\* one with 1-byte sizes, method Store, a payload of 1 byte
RecLocalStored ==
    SIG_LOCAL_FILE_HEADER \o <<1, 0, ATTR_ARCHIVE, 1, 2, 3, 4, 16, 0>>
        \o <<0, 0>> \o <<9, 8, 7, 6>> \o <<1>> \o <<1>> \o <<98>> \o <<104>>
\* an encrypted one with a data descriptor: 12 bytes of encryption header
RecLocalEncrypted ==
    SIG_LOCAL_FILE_HEADER \o <<1, 0, ATTR_ARCHIVE, 1, 2, 3, 4, 25, 0>>
        \o <<2, 0>> \o <<9, 8, 7, 6>> \o <<1>> \o <<1>> \o <<99>>
        \o <<1, 2, 3, 4, 5, 6, 7, 8, 9, 10, 11, 12>> \o <<105>>
\* one whose compressed size (5) is more than the stream holds after it
RecLocalTruncated ==
    SIG_LOCAL_FILE_HEADER \o <<1, 0, ATTR_ARCHIVE, 1, 2, 3, 4, 16, 0>>
        \o <<0, 0>> \o <<9, 8, 7, 6>> \o <<5>> \o <<5>> \o <<100>>
\* one with the size-width nibble 3, one with a file name of length 0
RecLocalBadWidth == SIG_LOCAL_FILE_HEADER \o <<1, 0, ATTR_ARCHIVE, 1, 2, 3, 4, 48, 0>>
RecLocalNoName == SIG_LOCAL_FILE_HEADER \o <<0, 0, ATTR_ARCHIVE, 1, 2, 3, 4, 0, 0>>
RecCentralDirectory == SIG_CENTRAL_DIRECTORY \o <<0, 0, 0, 0, 0, 0, 0, 0, 0, 0, 0, 0>>
RecEnd == SIG_END_OF_CENTRAL_DIR
\* the end record followed by 16 bytes of endInfos that give the comment
\* section 6 bytes
RecEndWithInfos ==
    SIG_END_OF_CENTRAL_DIR \o <<0, 0, 0, 0>> \o <<6, 0, 0, 0>> \o <<0, 0, 0, 0, 0, 0, 0, 0>>
RecComment == SIG_COMMENT \o <<33, 33>>
RecSplitMarker == SIG_SPLIT_MARKER
RecUnknown == <<88, 76, 90, 1>>
RecStray == <<1, 2>>

Records ==
    {RecAlzHeader, RecLocalNoSizes, RecLocalStored, RecLocalEncrypted, RecLocalTruncated,
     RecLocalBadWidth, RecLocalNoName, RecCentralDirectory, RecEnd, RecEndWithInfos,
     RecComment, RecSplitMarker, RecUnknown, RecStray}

RECURSIVE Flatten(_)
Flatten(ss) == IF ss = <<>> THEN <<>> ELSE Head(ss) \o Flatten(Tail(ss))

\* The byte streams: up to MaxRecords records, one after the other
ParseInputs == {Flatten(rs) : rs \in SeqsUpTo(Records, MaxRecords)}

\* MultiVolumeReader::from_bytes and the fields AlzArchive::from_bytes starts from
OpenBytes(data) ==
    /\ volumes' = [i \in {0} |-> [bytes |-> data, file_size |-> Len(data),
                                  header_size |-> 0, tail_size |-> 0, pos |-> 0]]
    /\ cur_volume' = 0
    /\ virtual_pos' = 0
    /\ tail' = IF Len(data) >= 16 THEN SubSeq(data, Len(data) - 15, Len(data))
               ELSE [k \in 1..16 |-> 0]
    /\ entries' = <<>>
    /\ is_encrypted' = FALSE
    /\ is_data_descr' = FALSE
    /\ seen_alz_header' = FALSE
    /\ p_sigs' = <<>>
    /\ p_pc' = "scan"
    /\ p_err' = "none"

POpen ==
    /\ p_pc = "closed"
    /\ \E data \in ParseInputs : OpenBytes(data)
    /\ UNCHANGED <<mv_pc, mv_last, mv_base, mv_got>>
    /\ UNCHANGED <<cryptoVars, extractVars, stepVars>>

\* read_u32_le at the head of the loop
ReadSig == read_exact(ReaderOf(volumes, cur_volume, virtual_pos), 4)

\* comment_section_size, from the tail
comment_section_size == LeValue(SubSeq(tail, 5, 8))

\* What an arm of the match leaves: on an error parse returns it and from_bytes
\* drops the archive
Arm(step) ==
    /\ volumes' = step.rd.volumes
    /\ cur_volume' = step.rd.cur_volume
    /\ virtual_pos' = step.rd.virtual_pos
    /\ p_sigs' = Append(p_sigs, ReadSig.out)
    /\ IF step.err = "none"
       THEN /\ entries' = step.entries
            /\ is_encrypted' = step.is_encrypted
            /\ is_data_descr' = step.is_data_descr
            /\ UNCHANGED <<p_pc, p_err>>
       ELSE /\ entries' = <<>>
            /\ is_encrypted' = FALSE
            /\ is_data_descr' = FALSE
            /\ p_pc' = "err"
            /\ p_err' = step.err
    /\ UNCHANGED <<tail, mv_pc, mv_last, mv_base, mv_got>>
    /\ UNCHANGED <<cryptoVars, extractVars, stepVars>>

PReadAlzHeader ==
    /\ p_pc = "scan"
    /\ ReadSig.ok /\ ReadSig.out = SIG_ALZ_FILE_HEADER
    /\ LET step == ReadAndDrop(ReadSig.rd, 4, entries, is_encrypted, is_data_descr)
       IN  /\ Arm(step)
           /\ seen_alz_header' = IF step.err = "none" THEN TRUE ELSE seen_alz_header

PReadLocalFileHeader ==
    /\ p_pc = "scan"
    /\ ReadSig.ok /\ ReadSig.out = SIG_LOCAL_FILE_HEADER
    /\ Arm(read_local_file_header(ReadSig.rd, entries, is_encrypted, is_data_descr))
    /\ UNCHANGED seen_alz_header

PReadCentralDirectory ==
    /\ p_pc = "scan"
    /\ ReadSig.ok /\ ReadSig.out = SIG_CENTRAL_DIRECTORY
    /\ Arm(ReadAndDrop(ReadSig.rd, 12, entries, is_encrypted, is_data_descr))
    /\ UNCHANGED seen_alz_header

PEndOfCentralDir ==
    /\ p_pc = "scan"
    /\ ReadSig.ok /\ ReadSig.out = SIG_END_OF_CENTRAL_DIR
    /\ volumes' = ReadSig.rd.volumes
    /\ cur_volume' = ReadSig.rd.cur_volume
    /\ virtual_pos' = ReadSig.rd.virtual_pos
    /\ p_sigs' = Append(p_sigs, ReadSig.out)
    /\ p_pc' = "ok"
    /\ UNCHANGED <<p_err, entries, is_encrypted, is_data_descr, seen_alz_header>>
    /\ UNCHANGED <<tail, mv_pc, mv_last, mv_base, mv_got>>
    /\ UNCHANGED <<cryptoVars, extractVars, stepVars>>

PSkipComment ==
    /\ p_pc = "scan"
    /\ ReadSig.ok /\ ReadSig.out = SIG_COMMENT
    /\ Arm(skip_comment_section(ReadSig.rd, comment_section_size, entries,
                                is_encrypted, is_data_descr))
    /\ UNCHANGED seen_alz_header

PSplitMarker ==
    /\ p_pc = "scan"
    /\ ReadSig.ok /\ ReadSig.out = SIG_SPLIT_MARKER
    /\ Arm(ParseStep("none", ReadSig.rd, entries, is_encrypted, is_data_descr))
    /\ UNCHANGED seen_alz_header

PUnknownSignature ==
    /\ p_pc = "scan"
    /\ ReadSig.ok /\ ReadSig.out \notin KnownSignatures
    /\ Arm(ParseStep(UnknownSignatureError(seen_alz_header), ReadSig.rd, entries,
                     is_encrypted, is_data_descr))
    /\ UNCHANGED seen_alz_header

\* read_u32_le fails: the while loop ends and parse returns Ok
PEndOfInput ==
    /\ p_pc = "scan"
    /\ ~ReadSig.ok
    /\ volumes' = ReadSig.rd.volumes
    /\ cur_volume' = ReadSig.rd.cur_volume
    /\ virtual_pos' = ReadSig.rd.virtual_pos
    /\ p_pc' = "ok"
    /\ UNCHANGED <<p_err, entries, is_encrypted, is_data_descr, seen_alz_header, p_sigs>>
    /\ UNCHANGED <<tail, mv_pc, mv_last, mv_base, mv_got>>
    /\ UNCHANGED <<cryptoVars, extractVars, stepVars>>

ParseInit == ParseIdle /\ MvIdle /\ CryptoIdle /\ ExtractIdle /\ StepIdle

ParseNext ==
    \/ POpen \/ PReadAlzHeader \/ PReadLocalFileHeader \/ PReadCentralDirectory
    \/ PEndOfCentralDir \/ PSkipComment \/ PSplitMarker \/ PUnknownSignature
    \/ PEndOfInput

SpecParse == ParseInit /\ [][ParseNext]_vars

-----------------------------------------------------------------------------
(* extract.rs: names, paths and the file system extract_entry works on *)

DOT == 46
SLASH == 47
BACKSLASH == 92

\* str::replace(from, to) for one-byte patterns
Replace(str, from, to) == [i \in 1..Len(str) |-> IF str[i] = from THEN to ELSE str[i]]

\* str::contains(pat)
Contains(str, pat) ==
    \E i \in 1..(Len(str) - Len(pat) + 1) : SubSeq(str, i, i + Len(pat) - 1) = pat

\* Path::components of an absolute path or of a name joined to one: the pieces
\* between the separators, without the empty ones and the "." ones
RECURSIVE SplitFrom(_, _, _, _)
SplitFrom(str, i, piece, acc) ==
    LET done == IF piece = <<>> \/ piece = <<DOT>> THEN acc ELSE Append(acc, piece)
    IN  IF i > Len(str) THEN done
        ELSE IF str[i] = SLASH THEN SplitFrom(str, i + 1, <<>>, done)
        ELSE SplitFrom(str, i + 1, Append(piece, str[i]), acc)

Components(str) == SplitFrom(str, 1, <<>>, <<>>)

\* Path::has_root
has_root(str) == str # <<>> /\ str[1] = SLASH

\* Path::join: a name with a root replaces the directory
join(dir, name) == IF has_root(name) THEN Components(name) ELSE dir \o Components(name)

PARENT_DIR == <<DOT, DOT>>

Last(q) == q[Len(q)]

Front(q) == SubSeq(q, 1, Len(q) - 1)

\* Path::starts_with, on components
starts_with_Always(path, base) == TRUE

starts_with(path, base) ==
    Len(base) <= Len(path) /\ SubSeq(path, 1, Len(base)) = base

IsDir(fs, path) == path \in fs.dirs
IsFile(fs, path) == \E f \in fs.files : f.path = path
IsLink(fs, path) == \E l \in fs.links : l.path = path
TargetOf(fs, path) == (CHOOSE l \in fs.links : l.path = path).target
DataOf(fs, path) == (CHOOSE f \in fs.files : f.path = path).data

MAX_LINKS == 40

\* Path resolution as the kernel does it, from the canonical directory cur
\* through the components rest; a missing directory is made when create is set
\* (but never one of the first `pinned` components, which come from the target of
\* a link): [ok, path |-> the canonical path reached, fs |-> the file system]
RECURSIVE Walk(_, _, _, _, _, _)
Walk(fs, cur, rest, create, pinned, fuel) ==
    IF rest = <<>> THEN [ok |-> TRUE, path |-> cur, fs |-> fs]
    ELSE LET c == Head(rest)
             next == Append(cur, c)
             more == Tail(rest)
             left == IF pinned > 0 THEN pinned - 1 ELSE 0
         IN  IF c = PARENT_DIR
             THEN Walk(fs, IF cur = <<>> THEN cur ELSE Front(cur), more, create, left, fuel)
             ELSE IF IsDir(fs, next) THEN Walk(fs, next, more, create, left, fuel)
             ELSE IF IsLink(fs, next)
             THEN LET t == TargetOf(fs, next)
                      tc == Components(t)
                  IN  IF fuel = 0 THEN [ok |-> FALSE, path |-> next, fs |-> fs]
                      ELSE Walk(fs, IF has_root(t) THEN <<>> ELSE cur, tc \o more, create,
                                Len(tc) + left, fuel - 1)
             ELSE IF IsFile(fs, next)
             THEN [ok |-> more = <<>> /\ ~create, path |-> next, fs |-> fs]
             ELSE IF create /\ pinned = 0
             THEN Walk([fs EXCEPT !.dirs = @ \cup {next}], next, more, create, 0, fuel)
             ELSE [ok |-> FALSE, path |-> next, fs |-> fs]

\* fs::canonicalize and fs::create_dir_all of an absolute path
canonicalize(fs, path) == Walk(fs, <<>>, path, FALSE, 0, MAX_LINKS)
create_dir_all(fs, path) == Walk(fs, <<>>, path, TRUE, 0, MAX_LINKS)

\* Where open(2) with O_CREAT puts the file of an absolute path:
\* [ok, path |-> its canonical path]
CreateTarget(fs, path) ==
    IF path = <<>> \/ Last(path) = PARENT_DIR THEN [ok |-> FALSE, path |-> path]
    ELSE LET par == canonicalize(fs, Front(path))
             at == Append(par.path, Last(path))
         IN  IF ~par.ok \/ ~IsDir(fs, par.path) THEN [ok |-> FALSE, path |-> path]
             ELSE IF IsDir(fs, at) THEN [ok |-> FALSE, path |-> at]
             ELSE IF IsLink(fs, at)
             THEN LET t == TargetOf(fs, at)
                      tp == (IF has_root(t) THEN <<>> ELSE par.path) \o Components(t)
                      tpar == canonicalize(fs, Front(tp))
                  IN  IF tp = <<>> \/ ~tpar.ok \/ ~IsDir(fs, tpar.path)
                      THEN [ok |-> FALSE, path |-> at]
                      ELSE LET tat == Append(tpar.path, Last(tp))
                           IN  [ok |-> ~IsDir(fs, tat) /\ ~IsLink(fs, tat), path |-> tat]
             ELSE [ok |-> TRUE, path |-> at]

\* The file system with the bytes data in the file of the canonical path
WriteFile(fs, path, data) ==
    [fs EXCEPT !.files = {f \in @ : f.path # path} \cup {[path |-> path, data |-> data]}]

\* fs::remove_file: unlinks the file or the link the path names
remove_file(fs, path) ==
    IF path = <<>> \/ Last(path) = PARENT_DIR THEN fs
    ELSE LET par == canonicalize(fs, Front(path))
             at == Append(par.path, Last(path))
         IN  IF ~par.ok THEN fs
             ELSE [fs EXCEPT !.files = {f \in @ : f.path # at},
                             !.links = {l \in @ : l.path # at}]

\* std::os::unix::fs::symlink(target, path): [ok, fs]
symlink(fs, target, path) ==
    IF path = <<>> \/ Last(path) = PARENT_DIR THEN [ok |-> FALSE, fs |-> fs]
    ELSE LET par == canonicalize(fs, Front(path))
             at == Append(par.path, Last(path))
         IN  IF ~par.ok \/ ~IsDir(fs, par.path) \/ IsDir(fs, at) \/ IsFile(fs, at)
                \/ IsLink(fs, at)
             THEN [ok |-> FALSE, fs |-> fs]
             ELSE [ok |-> TRUE,
                   fs |-> [fs EXCEPT !.links = @ \cup {[path |-> at, target |-> target]}]]

\* String::from_utf8_lossy: ASCII bytes are kept; every other byte of the
\* payloads of the model is an invalid sequence of its own and becomes U+FFFD
RECURSIVE from_utf8_lossy(_)
from_utf8_lossy(bytes) ==
    IF bytes = <<>> THEN <<>>
    ELSE (IF Head(bytes) < 128 THEN <<Head(bytes)>> ELSE <<239, 191, 189>>)
            \o from_utf8_lossy(Tail(bytes))

\* crc32fast::Hasher: new, update over the bytes, finalize
RECURSIVE HasherUpdate(_, _)
HasherUpdate(crc, bytes) ==
    IF bytes = <<>> THEN crc ELSE HasherUpdate(crc32_byte(crc, Head(bytes)), Tail(bytes))

Crc32(bytes) ==
    Xor32(HasherUpdate(<<255, 255, 255, 255>>, bytes), <<255, 255, 255, 255>>)

-----------------------------------------------------------------------------
(* crypto.rs check_header, the extractors, and extract.rs extract_entry *)

\* (file_time_date >> 8) as u8 and (file_crc >> 24) as u8
TimeCheckByte(file_time_date) == file_time_date[2]
CrcCheckByte(file_crc) == file_crc[4]

\* ZipCrypto::check_header, its loop from byte i on: [ok, key |-> the keys afterwards]
RECURSIVE CheckHeaderFrom(_, _, _, _, _, _, _)
CheckHeaderFrom(key, enc_header, i, last_byte, file_crc, file_time_date, is_dd) ==
    IF i > Len(enc_header)
    THEN [ok |-> IF is_dd THEN TimeCheckByte(file_time_date) = last_byte
                 ELSE CrcCheckByte(file_crc) = last_byte,
          key |-> key]
    ELSE Only({CheckHeaderFrom(update_keys(key, c), enc_header, i + 1, c, file_crc,
                               file_time_date, is_dd) :
                    c \in {Xor8(enc_header[i], decrypt_byte(key))}})

check_header_KeepsKey(key, enc_header, file_crc, file_time_date, is_dd) ==
    [CheckHeaderFrom(key, enc_header, 1, 0, file_crc, file_time_date, is_dd)
        EXCEPT !.key = key]

check_header(key, enc_header, file_crc, file_time_date, is_dd) ==
    CheckHeaderFrom(key, enc_header, 1, 0, file_crc, file_time_date, is_dd)

\* The flag extract_entry hands to check_header, line 30
HeaderFlag_ArchiveWide(archive_dd, entry) == archive_dd

HeaderFlag(archive_dd, entry) == has_data_descriptor(entry)

\* password.ok_or(PasswordNotSet) and enc_check.ok_or(PasswordNotSet), lines 23-24
RequirePassword_Lenient(entry, password) == "none"

RequirePassword(entry, password) ==
    IF ~password.some \/ entry.enc_check = <<>> THEN "PasswordNotSet" ELSE "none"

NoCrypto == [some |-> FALSE, key |-> InitialKeys]

\* Lines 34-38: the cipher for the payload, made anew from the password and
\* run over a copy of the encryption header
PayloadCipher_SkipsHeader(password, enc_check) == ZipCryptoNew(password)

PayloadCipher(password, enc_check) == decrypt(ZipCryptoNew(password), enc_check).key

\* Lines 22-42: [err, crypto |-> the Option<ZipCrypto>, checked |-> whether
\* check_header was called, header_ok |-> what it returned]
CryptoFor(archive_dd, entry, password) ==
    IF ~is_encrypted_entry(entry)
    THEN [err |-> "none", crypto |-> NoCrypto, checked |-> FALSE, header_ok |-> FALSE]
    ELSE IF RequirePassword(entry, password) # "none"
    THEN [err |-> RequirePassword(entry, password), crypto |-> NoCrypto,
          checked |-> FALSE, header_ok |-> FALSE]
    ELSE LET chk == check_header(ZipCryptoNew(password.val), entry.enc_check,
                                 entry.file_crc, entry.file_time_date,
                                 HeaderFlag(archive_dd, entry))
         IN  IF ~chk.ok
             THEN [err |-> "InvalidPassword", crypto |-> NoCrypto, checked |-> TRUE,
                   header_ok |-> FALSE]
             ELSE [err |-> "none",
                   crypto |-> [some |-> TRUE, key |-> PayloadCipher(password.val, entry.enc_check)],
                   checked |-> TRUE, header_ok |-> TRUE]

BUF_SIZE == 32768

\* What an extractor returns: the error ("none" for Ok), the reader and the
\* cipher afterwards, and the bytes it wrote to the writer and fed to the hasher
Extracted(err, rd, crypto, out) == [err |-> err, rd |-> rd, crypto |-> crypto, out |-> out]

\* c.decrypt(data) when there is a cipher
Decrypted_ForgetsKey(r) == [crypto |-> [some |-> TRUE, key |-> InitialKeys], data |-> r.data]

Decrypted(r) == [crypto |-> [some |-> TRUE, key |-> r.key], data |-> r.data]

MaybeDecrypt(crypto, data) ==
    IF crypto.some THEN Decrypted(decrypt(crypto.key, data))
    ELSE [crypto |-> crypto, data |-> data]

\* Read::take(limit), lines 80 and 112: the reader with the bytes it may still
\* hand out
take(rd, limit) == [inner |-> rd, limit |-> limit]

\* Read::read_exact on a Take: Take::read hands out at most limit bytes of the
\* inner reader and then reports the end of the stream
TakeReadExact(t, n) ==
    LET r == read_exact(t.inner, Min(n, t.limit))
    IN  [ok |-> r.ok /\ n <= t.limit,
         rd |-> [inner |-> r.rd, limit |-> t.limit - Len(r.out)],
         out |-> r.out]

\* raw::extract_raw: its while loop (RawLoop), lines 21-22 (the chunk is read:
\* RawChunk), lines 24-31 (decrypted, hashed and written: RawWrite)
RECURSIVE RawLoop(_, _, _, _)
RawWrite(r, d, remaining, out) ==
    RawLoop(r.rd, remaining - Len(r.out), d.crypto, out \o d.data)

RawChunk(r, remaining, crypto, out) ==
    IF ~r.ok THEN Extracted("Io", r.rd, crypto, out)
    ELSE RawWrite(r, MaybeDecrypt(crypto, r.out), remaining, out)

RawLoop(rd, remaining, crypto, out) ==
    IF remaining = 0 THEN Extracted("none", rd, crypto, out)
    ELSE RawChunk(TakeReadExact(rd, Min(remaining, BUF_SIZE)), remaining, crypto, out)

extract_raw(rd, size, crypto) == RawLoop(rd, size, crypto, <<>>)

IN_BUF_SIZE == 32768

\* deflate::extract_deflate for a payload of one input buffer: the payload is
\* read and decrypted (r); what the inflater makes of it is dec, the bytes it
\* produces (written and hashed as they come) and whether it fails after them
Inflated(r, crypto, dec) ==
    IF ~r.ok THEN Extracted("Io", r.rd, crypto, <<>>)
    ELSE Extracted(IF dec.failed THEN "InflateFailed" ELSE "none", r.rd,
                   MaybeDecrypt(crypto, r.out).crypto, dec.out)

extract_deflate(rd, compressed_size, crypto, dec) ==
    Inflated(TakeReadExact(rd, IF compressed_size > 0 THEN Min(compressed_size, IN_BUF_SIZE) ELSE 0),
             crypto, dec)

\* bzip2::extract_bzip2: the whole payload is read and decrypted (r); dec is what
\* the re-encoder and the decoder make of it. A failure after output is ignored.
Bunzipped(r, crypto, dec) ==
    IF ~r.ok THEN Extracted("Io", r.rd, crypto, <<>>)
    ELSE Extracted(IF dec.failed /\ dec.out = <<>> THEN "Bzip2Failed" ELSE "none", r.rd,
                   MaybeDecrypt(crypto, r.out).crypto, dec.out)

extract_bzip2(rd, compressed_size, crypto, dec) ==
    Bunzipped(TakeReadExact(rd, compressed_size), crypto, dec)

\* extract.rs decompress_to; rd is the Take of the caller
decompress_to(rd, entry, crypto, dec) ==
    CASE entry.compression_method.kind = "Store" ->
            extract_raw(rd, entry.compressed_size, crypto)
      [] entry.compression_method.kind = "Deflate" ->
            extract_deflate(rd, entry.compressed_size, crypto, dec)
      [] entry.compression_method.kind = "Bzip2" ->
            extract_bzip2(rd, entry.compressed_size, crypto, dec)
      [] OTHER -> Extracted("UnknownCompressionMethod", rd, crypto, <<>>)

\* Lines 80-82 and 112-121: decompress_to on a Take of compressed_size bytes of
\* the reader; the Take is dropped and the reader is where it left it
DecompressLimited(rd, entry, crypto, dec) ==
    LET d == decompress_to(take(rd, entry.compressed_size), entry, crypto, dec)
    IN  [d EXCEPT !.rd = d.rd.inner]

\* The comparison of lines 83 and 135
CrcDiffers_IgnoresLowByte(crc, file_crc) == SubSeq(crc, 2, 4) # SubSeq(file_crc, 2, 4)

CrcDiffers(crc, file_crc) == crc # file_crc

\* What extract_entry returns and leaves: the error ("none" for Ok), the
\* reader, the file system, standard output, the bytes it handed to a writer,
\* the CRC the extractor returned, what the password check did, and whether
\* the CRC was compared (verified) and the expected field of InvalidFileCrc
Outcome(err, rd, fs, stdout, written, crc, pw) ==
    [err |-> err, rd |-> rd, fs |-> fs, stdout |-> stdout, written |-> written,
     got |-> crc, checked |-> pw.checked, header_ok |-> pw.header_ok,
     verified |-> FALSE, expected |-> <<0, 0, 0, 0>>]

\* AlzError::InvalidFileCrc { expected: entry.file_crc, got: crc }
InvalidFileCrc(entry, rd, fs, stdout, written, crc, pw) ==
    [Outcome("InvalidFileCrc", rd, fs, stdout, written, crc, pw)
        EXCEPT !.verified = TRUE, !.expected = entry.file_crc]

\* Ok(()) after the comparison
CrcOk(rd, fs, stdout, written, crc, pw) ==
    [Outcome("none", rd, fs, stdout, written, crc, pw) EXCEPT !.verified = TRUE]

NoCrc == <<0, 0, 0, 0>>

\* Lines 89-105: the target of a symlink entry is written out or linked
SymlinkMade(made, d, stdout, crc, pw) ==
    IF ~made.ok THEN Outcome("Io", d.rd, made.fs, stdout, d.out, crc, pw)
    ELSE CrcOk(d.rd, made.fs, stdout, d.out, crc, pw)

SymlinkTarget(target, d, fs, stdout, crc, dest_path, pw, pipe_mode) ==
    IF pipe_mode THEN CrcOk(d.rd, fs, stdout \o target, d.out, crc, pw)
    ELSE IF Contains(target, <<DOT, DOT, SLASH>>)
            \/ Contains(target, <<DOT, DOT, BACKSLASH>>) \/ has_root(target)
    THEN Outcome("PathTraversal", d.rd, fs, stdout, d.out, crc, pw)
    ELSE SymlinkMade(symlink(fs, target, dest_path), d, stdout, crc, pw)

\* Lines 82-88: the payload of a symlink entry is decompressed into a buffer
SymlinkChecked(d, crc, fs, stdout, entry, dest_path, pw, pipe_mode) ==
    IF CrcDiffers(crc, entry.file_crc)
    THEN InvalidFileCrc(entry, d.rd, fs, stdout, d.out, crc, pw)
    ELSE [SymlinkTarget(from_utf8_lossy(d.out), d, fs, stdout, crc, dest_path, pw, pipe_mode)
            EXCEPT !.verified = TRUE]

SymlinkRead(d, fs, stdout, entry, dest_path, pw, pipe_mode) ==
    IF d.err # "none" THEN Outcome(d.err, d.rd, fs, stdout, d.out, NoCrc, pw)
    ELSE SymlinkChecked(d, Crc32(d.out), fs, stdout, entry, dest_path, pw, pipe_mode)

\* Lines 134-145: the CRC the extractor returned is compared
VerifyCrc(d, crc, fs, stdout, entry, dest_path, pw, pipe_mode) ==
    IF CrcDiffers(crc, entry.file_crc)
    THEN InvalidFileCrc(entry, d.rd, IF pipe_mode THEN fs ELSE remove_file(fs, dest_path),
                        stdout, d.out, crc, pw)
    ELSE CrcOk(d.rd, fs, stdout, d.out, crc, pw)

\* Lines 115-132: d is what decompress_to did, fs and stdout hold what it wrote
FileWritten(d, fs, stdout, entry, dest_path, pw, pipe_mode) ==
    IF d.err # "none" THEN Outcome(d.err, d.rd, fs, stdout, d.out, NoCrc, pw)
    ELSE VerifyCrc(d, Crc32(d.out), fs, stdout, entry, dest_path, pw, pipe_mode)

FileToStdout(d, fs, stdout, entry, dest_path, pw) ==
    FileWritten(d, fs, stdout \o d.out, entry, dest_path, pw, TRUE)

FileToFile(d, ct, fs, stdout, entry, dest_path, pw) ==
    FileWritten(d, WriteFile(fs, ct.path, d.out), stdout, entry, dest_path, pw, FALSE)

\* Line 120: ct is where File::create made the file
FileCreated(ct, rd, fs, stdout, entry, dest_path, pw, dec) ==
    IF ~ct.ok THEN Outcome("CantOpenDestFile", rd, fs, stdout, <<>>, NoCrc, pw)
    ELSE FileToFile(DecompressLimited(rd, entry, pw.crypto, dec), ct, fs, stdout, entry,
                    dest_path, pw)

\* archive.reader.seek(SeekFrom::Start(entry.data_pos)), lines 79 and 109
SeekToData_StaysPut(rd, entry) == [ok |-> TRUE, rd |-> rd]

SeekToData_ToStart(rd, entry) == seek(rd, "Start", 0)

SeekToData(rd, entry) == seek(rd, "Start", entry.data_pos)

\* Lines 78-81 and 108-112: sk is what the seek to data_pos did
Sought(sk, fs, stdout, entry, dest_path, pw, pipe_mode, dec) ==
    IF ~sk.ok THEN Outcome("Io", sk.rd, fs, stdout, <<>>, NoCrc, pw)
    ELSE IF is_symlink(entry)
    THEN SymlinkRead(DecompressLimited(sk.rd, entry, pw.crypto, dec), fs, stdout, entry,
                     dest_path, pw, pipe_mode)
    ELSE IF pipe_mode
    THEN FileToStdout(DecompressLimited(sk.rd, entry, pw.crypto, dec), fs, stdout, entry,
                      dest_path, pw)
    ELSE FileCreated(CreateTarget(fs, dest_path), sk.rd, fs, stdout, entry, dest_path, pw, dec)

\* Lines 70-75: a directory entry
DirectoryMade_WritesMarker(dir, rd, stdout, pw) ==
    Outcome(IF dir.ok THEN "none" ELSE "Io", rd, dir.fs, stdout \o <<0>>, <<0>>, NoCrc, pw)

DirectoryMade(dir, rd, stdout, pw) ==
    Outcome(IF dir.ok THEN "none" ELSE "Io", rd, dir.fs, stdout, <<>>, NoCrc, pw)

\* Lines 58-66: the parent of dest_path is made and resolved
Resolved(canon, dest_path, canonical_dest) ==
    IF ~canon.ok THEN [err |-> "Io", fs |-> canon.fs]
    ELSE [err |-> IF starts_with(canon.path \o (IF Last(dest_path) = PARENT_DIR THEN <<>>
                                                ELSE <<Last(dest_path)>>),
                                 canonical_dest.path)
                  THEN "none" ELSE "PathTraversal",
          fs |-> canon.fs]

ParentMade(made, dest_path, canonical_dest) ==
    IF ~made.ok THEN [err |-> "Io", fs |-> made.fs]
    ELSE Resolved(canonicalize(made.fs, Front(dest_path)), dest_path, canonical_dest)

\* Lines 55-67: [err, fs |-> the file system afterwards]
DestChecked(canonical_dest, fs, dest_path) ==
    IF ~canonical_dest.ok THEN [err |-> "Io", fs |-> fs]
    ELSE IF dest_path = <<>>
    THEN [err |-> IF starts_with(dest_path, canonical_dest.path) THEN "none"
                  ELSE "PathTraversal",
          fs |-> fs]
    ELSE ParentMade(create_dir_all(fs, Front(dest_path)), dest_path, canonical_dest)

CheckResolved(fs, dest_dir, dest_path) ==
    DestChecked(canonicalize(fs, dest_dir), fs, dest_path)

\* Lines 69-145: chk is what the check of the resolved path did
PathChecked(chk, rd, stdout, entry, dest_path, pw, pipe_mode, dec) ==
    IF chk.err # "none" THEN Outcome(chk.err, rd, chk.fs, stdout, <<>>, NoCrc, pw)
    ELSE IF is_directory(entry)
    THEN IF pipe_mode THEN Outcome("none", rd, chk.fs, stdout, <<>>, NoCrc, pw)
         ELSE DirectoryMade(create_dir_all(chk.fs, dest_path), rd, stdout, pw)
    ELSE Sought(SeekToData(rd, entry), chk.fs, stdout, entry, dest_path, pw, pipe_mode, dec)

\* Lines 44-67: file_name is the name with its backslashes replaced
Named(file_name, rd, fs, stdout, entry, dest_dir, pw, pipe_mode, dec) ==
    IF Contains(file_name, <<DOT, DOT, SLASH>>) \/ Contains(file_name, <<DOT, DOT, BACKSLASH>>)
    THEN Outcome("PathTraversal", rd, fs, stdout, <<>>, NoCrc, pw)
    ELSE PathChecked(IF pipe_mode THEN [err |-> "none", fs |-> fs]
                     ELSE CheckResolved(fs, dest_dir, join(dest_dir, file_name)),
                     rd, stdout, entry, join(dest_dir, file_name), pw, pipe_mode, dec)

\* extract::extract_entry from line 44 on; pw is what lines 22-42 (CryptoFor)
\* made of the password, dec is what the decoder of the entry's method does
extract_entry(pw, rd, fs, stdout, entry, dest_dir, pipe_mode, dec) ==
    IF pw.err # "none" THEN Outcome(pw.err, rd, fs, stdout, <<>>, NoCrc, pw)
    ELSE Named(Replace(entry.file_name, BACKSLASH, SLASH), rd, fs, stdout, entry, dest_dir,
               pw, pipe_mode, dec)

-----------------------------------------------------------------------------
(* Archives with entries to extract, and extract_entry as an action. *)

\* The password the archives of the model were made with
ARCHIVE_PASSWORD == <<97>>

\* file_time_date of every entry: (file_time_date >> 8) as u8 is 77
ENTRY_TIME == <<1, 77, 3, 4>>

\* The payloads, and what a decoder may produce
Payloads == SeqsUpTo({104}, MaxPayloadLen)

\* The uncompressed bytes the declared CRC of a compressed entry is that of
INTENDED == <<104>>

\* File names: a, d/a, ../a, ..\a, /a, s/a (through the link), ..
Names ==
    {<<97>>, <<100, 47, 97>>, <<46, 46, 47, 97>>, <<46, 46, 92, 97>>, <<47, 97>>,
     <<115, 47, 97>>, <<46, 46>>}

\* The descriptor byte (1-byte sizes; 0x01 encrypted, 0x08 data descriptor) and
\* the field the archiver took the check byte of the encryption header from
Protections ==
    {[descriptor |-> 16, check |-> "none"],
     [descriptor |-> 17, check |-> "crc"],
     [descriptor |-> 17, check |-> "time"],
     [descriptor |-> 25, check |-> "time"],
     [descriptor |-> 25, check |-> "crc"]}

\* Method, payload, and whether the declared CRC is that of the content
Contents ==
    {[method |-> 0, payload |-> x, crc_ok |-> b] : x \in Payloads, b \in BOOLEAN}
    \cup {[method |-> m, payload |-> <<104>>, crc_ok |-> TRUE] : m \in {1, 2, 3}}

\* A stored file "a" with its CRC right, and the entries that differ from it in
\* name, attribute and protection, or in protection and content, and a
\* directory whose declared CRC is not that of its payload; files named /d/a
\* and s/d/a (through the link), and a symlink d/a whose target is /
BASE_CONTENT == [method |-> 0, payload |-> <<104>>, crc_ok |-> TRUE]

EntrySpecs ==
    {[name |-> n, attr |-> a, prot |-> pr, content |-> BASE_CONTENT] :
        n \in Names, a \in {ATTR_ARCHIVE, ATTR_DIRECTORY, ATTR_SYMLINK},
        pr \in Protections}
    \cup {[name |-> <<97>>, attr |-> ATTR_ARCHIVE, prot |-> pr, content |-> c] :
        pr \in {pr \in Protections : pr.check \in {"none", "crc"} /\ pr.descriptor # 25},
        c \in Contents}
    \cup {[name |-> <<97>>, attr |-> ATTR_DIRECTORY, prot |-> pr,
           content |-> [BASE_CONTENT EXCEPT !.crc_ok = FALSE]] :
        pr \in {pr \in Protections : pr.check = "none"}}
    \cup {[name |-> n, attr |-> ATTR_ARCHIVE, prot |-> pr, content |-> BASE_CONTENT] :
        n \in {<<47, 100, 47, 97>>, <<115, 47, 100, 47, 97>>},
        pr \in {pr \in Protections : pr.check = "none"}}
    \cup {[name |-> <<100, 47, 97>>, attr |-> ATTR_SYMLINK, prot |-> pr,
           content |-> [BASE_CONTENT EXCEPT !.payload = <<47>>]] :
        pr \in {pr \in Protections : pr.check = "none"}}

\* The CRC field of the local file header of an entry
DeclaredCrc(es) ==
    LET crc == Crc32(IF es.content.method = 0 THEN es.content.payload ELSE INTENDED)
    IN  IF es.content.crc_ok THEN crc ELSE [crc EXCEPT ![1] = Xor8(@, 1)]

\* The local file record an archiver writes for an entry: signature, header,
\* name, and for an encrypted entry the 12-byte encryption header and the
\* payload under the key stream that follows it
RecordOf(es) ==
    LET crc == DeclaredCrc(es)
        check_byte == IF es.prot.check = "time" THEN TimeCheckByte(ENTRY_TIME)
                      ELSE CrcCheckByte(crc)
        header == encrypt(ZipCryptoNew(ARCHIVE_PASSWORD),
                          <<1, 2, 3, 4, 5, 6, 7, 8, 9, 10, 11, check_byte>>)
        body == IF es.prot.check = "none" THEN es.content.payload
                ELSE header.data \o encrypt(header.key, es.content.payload).data
    IN  SIG_LOCAL_FILE_HEADER \o <<Len(es.name), 0, es.attr>> \o ENTRY_TIME
            \o <<es.prot.descriptor, 0>> \o <<es.content.method, 0>> \o crc
            \o <<Len(es.content.payload)>>
            \o <<IF es.content.method = 0 THEN Len(es.content.payload) ELSE Len(INTENDED)>>
            \o es.name \o body

\* A second entry, with the data-descriptor bit, that some archives hold after
\* the first
COMPANION ==
    [name |-> <<98>>, attr |-> ATTR_ARCHIVE,
     prot |-> [descriptor |-> 24, check |-> "none"],
     content |-> BASE_CONTENT]

ArchiveOf(es, with_companion) ==
    RecAlzHeader \o RecordOf(es) \o (IF with_companion THEN RecordOf(COMPANION) ELSE <<>>)
        \o RecCentralDirectory \o RecEnd

ExtractInputs == {ArchiveOf(es, b) : es \in EntrySpecs, b \in BOOLEAN}

XOpen ==
    /\ p_pc = "closed"
    /\ \E data \in ExtractInputs : OpenBytes(data)
    /\ UNCHANGED <<mv_pc, mv_last, mv_base, mv_got>>
    /\ UNCHANGED <<cryptoVars, extractVars, stepVars>>

\* Option<&str>: None, the archive's password, another one
PasswordArgs ==
    {[some |-> FALSE, val |-> <<>>], [some |-> TRUE, val |-> ARCHIVE_PASSWORD],
     [some |-> TRUE, val |-> <<98>>]}

\* What the inflater or the bzip2 decoder does with a payload
DecoderBehaviours == {[out |-> o, failed |-> f] : o \in Payloads, f \in BOOLEAN}

\* extract_entry(&mut archive, &archive.entries[i], dest_dir, password, pipe_mode)
\* with a decoder that behaves as dec: what it does to the reader, the file
\* system and standard output, and the record of the call
ExtractCall(i, password, pipe_mode, dec) ==
    /\ entries[i].compression_method.kind \in {"Store", "Unknown"}
            => dec = [out |-> <<>>, failed |-> FALSE]
    /\ \E entry \in {entries[i]} :
       \E pw \in {CryptoFor(is_data_descr, entry, password)} :
       \E r \in {extract_entry(pw, ReaderOf(volumes, cur_volume, virtual_pos), x_fs,
                               x_stdout, entry, DEST_DIR, pipe_mode, dec)} :
        /\ volumes' = r.rd.volumes
        /\ cur_volume' = r.rd.cur_volume
        /\ virtual_pos' = r.rd.virtual_pos
        /\ x_fs' = r.fs
        /\ x_stdout' = r.stdout
        /\ x_last' = [op |-> "extract", index |-> i, entry |-> entry, password |-> password,
                      pipe_mode |-> pipe_mode, dec |-> dec, archive_dd |-> is_data_descr,
                      err |-> r.err, got |-> r.got, expected |-> r.expected,
                      written |-> r.written, verified |-> r.verified,
                      checked |-> r.checked, header_ok |-> r.header_ok,
                      pre |-> [rd |-> ReaderOf(volumes, cur_volume, virtual_pos),
                               fs |-> x_fs, stdout |-> x_stdout]]
    /\ UNCHANGED <<tail, mv_pc, mv_last, mv_base, mv_got>>
    /\ UNCHANGED <<cryptoVars, parseVars, stepVars>>

\* The first call on the archive opened
XExtractEntry ==
    /\ p_pc = "ok"
    /\ x_last.op = "none"
    /\ \E i \in 1..Len(entries), password \in PasswordArgs, pipe_mode \in BOOLEAN,
          dec \in DecoderBehaviours :
        ExtractCall(i, password, pipe_mode, dec)
    /\ UNCHANGED <<x_hist, x_table, x_all>>

ExtractInit == ExtractIdle /\ ParseIdle /\ MvIdle /\ CryptoIdle /\ StepIdle

ExtractNext ==
    \/ XOpen \/ PReadAlzHeader \/ PReadLocalFileHeader \/ PReadCentralDirectory
    \/ PEndOfCentralDir \/ XExtractEntry

SpecExtract == ExtractInit /\ [][ExtractNext]_vars

-----------------------------------------------------------------------------
(* Several calls of extract_entry on one archive, and a second parse of its bytes. *)

\* Archives of two entries: "a" as a file or a symlink, stored, plain or
\* encrypted, and the plain file "b"
RepeatInputs ==
    {ArchiveOf([name |-> <<97>>, attr |-> a, prot |-> pr, content |-> BASE_CONTENT], TRUE) :
        a \in {ATTR_ARCHIVE, ATTR_SYMLINK},
        pr \in {pr \in Protections : pr.check \in {"none", "crc"} /\ pr.descriptor # 25}}

XOpenRepeat ==
    /\ p_pc = "closed"
    /\ \E data \in RepeatInputs : OpenBytes(data)
    /\ UNCHANGED <<mv_pc, mv_last, mv_base, mv_got>>
    /\ UNCHANGED <<cryptoVars, extractVars, stepVars>>

\* One more call on the archive, on any entry
XExtractRepeat ==
    /\ p_pc = "ok"
    /\ Len(x_hist) < MaxCalls
    /\ \E i \in 1..Len(entries), pipe_mode \in BOOLEAN,
          password \in {pa \in PasswordArgs : pa.val = ARCHIVE_PASSWORD} :
        ExtractCall(i, password, pipe_mode, [out |-> <<>>, failed |-> FALSE])
    /\ x_hist' = Append(x_hist, [index |-> x_last'.index, entry |-> x_last'.entry,
                                 password |-> x_last'.password,
                                 pipe_mode |-> x_last'.pipe_mode, err |-> x_last'.err,
                                 written |-> x_last'.written, got |-> x_last'.got])
    /\ UNCHANGED <<x_table, x_all>>

\* AlzArchive::from_bytes on the same bytes once more: a new reader, a new table
XReparse ==
    /\ p_pc = "ok"
    /\ ~x_table.some
    /\ x_table' = [some |-> TRUE, entries |-> entries]
    /\ OpenBytes(volumes[0].bytes)
    /\ UNCHANGED <<mv_pc, mv_last, mv_base, mv_got>>
    /\ UNCHANGED <<cryptoVars, stepVars, x_fs, x_stdout, x_last, x_hist, x_all>>

RepeatNext ==
    \/ XOpenRepeat \/ PReadAlzHeader \/ PReadLocalFileHeader \/ PReadCentralDirectory
    \/ PEndOfCentralDir \/ XExtractRepeat \/ XReparse

SpecRepeat == ExtractInit /\ [][RepeatNext]_vars

-----------------------------------------------------------------------------
(* extract_all, one pass of its for loop at a time. *)

\* The entries of the archives handed to it: the stored file "a", "a" with a
\* declared CRC that is not that of its content, "a" encrypted, "../a", and "b"
AllSpecs ==
    {[name |-> <<97>>, attr |-> ATTR_ARCHIVE, prot |-> [descriptor |-> 16, check |-> "none"],
      content |-> BASE_CONTENT],
     [name |-> <<97>>, attr |-> ATTR_ARCHIVE, prot |-> [descriptor |-> 16, check |-> "none"],
      content |-> [BASE_CONTENT EXCEPT !.crc_ok = FALSE]],
     [name |-> <<97>>, attr |-> ATTR_ARCHIVE, prot |-> [descriptor |-> 17, check |-> "crc"],
      content |-> BASE_CONTENT],
     [name |-> <<46, 46, 47, 97>>, attr |-> ATTR_ARCHIVE,
      prot |-> [descriptor |-> 16, check |-> "none"], content |-> BASE_CONTENT],
     COMPANION}

RECURSIVE RecordsOf(_)
RecordsOf(ss) == IF ss = <<>> THEN <<>> ELSE RecordOf(Head(ss)) \o RecordsOf(Tail(ss))

AllInputs ==
    {RecAlzHeader \o RecordsOf(ss) \o RecCentralDirectory \o RecEnd :
        ss \in SeqsUpTo(AllSpecs, MaxAll)}

XOpenAll ==
    /\ p_pc = "closed"
    /\ \E data \in AllInputs : OpenBytes(data)
    /\ UNCHANGED <<mv_pc, mv_last, mv_base, mv_got>>
    /\ UNCHANGED <<cryptoVars, extractVars, stepVars>>

\* line 174: the loop runs over a clone of archive.entries
ExtractAllStart ==
    /\ p_pc = "ok"
    /\ x_all.pc = "idle"
    /\ \E password \in {pa \in PasswordArgs : pa.val # <<98>>}, pipe_mode \in BOOLEAN :
        x_all' = [pc |-> "loop", password |-> password, pipe_mode |-> pipe_mode,
                  entries |-> entries, i |-> 1, ret |-> "none"]
    /\ UNCHANGED <<x_fs, x_stdout, x_last, x_hist, x_table>>
    /\ UNCHANGED <<cryptoVars, mvVars, parseVars, stepVars>>

\* The `?` of line 183 with the call's error none
Propagate_Ignores(call, err) == [call EXCEPT !.i = @ + 1]

\* The `?` of line 183: an error of extract_entry is what extract_all returns
Propagate(call, err) ==
    IF err # "none" THEN [call EXCEPT !.pc = "done", !.ret = err]
    ELSE [call EXCEPT !.i = @ + 1]

\* lines 175-186: one pass of the loop, on the entry the loop stands at
ExtractAllEntry ==
    /\ x_all.pc = "loop"
    /\ x_all.i <= Len(x_all.entries)
    /\ ExtractCall(x_all.i, x_all.password, x_all.pipe_mode, [out |-> <<>>, failed |-> FALSE])
    /\ x_hist' = Append(x_hist, [index |-> x_last'.index, entry |-> x_last'.entry,
                                 password |-> x_last'.password,
                                 pipe_mode |-> x_last'.pipe_mode, err |-> x_last'.err,
                                 written |-> x_last'.written, got |-> x_last'.got])
    /\ x_all' = Propagate(x_all, x_last'.err)
    /\ UNCHANGED x_table

\* line 187: the loop is through
ExtractAllReturn ==
    /\ x_all.pc = "loop"
    /\ x_all.i > Len(x_all.entries)
    /\ x_all' = [x_all EXCEPT !.pc = "done", !.ret = "none"]
    /\ UNCHANGED <<x_fs, x_stdout, x_last, x_hist, x_table>>
    /\ UNCHANGED <<cryptoVars, mvVars, parseVars, stepVars>>

AllNext ==
    \/ XOpenAll \/ PReadAlzHeader \/ PReadLocalFileHeader \/ PReadCentralDirectory
    \/ PEndOfCentralDir \/ ExtractAllStart \/ ExtractAllEntry \/ ExtractAllReturn

SpecAll == ExtractInit /\ [][AllNext]_vars

-----------------------------------------------------------------------------
(* raw::extract_raw, one pass of its while loop at a time. The buffer is
   BUF_SIZE long in the code; the loop is also run with buffers of one and
   two bytes, which makes a source of a few bytes span several chunks. *)

BufLens == {1, 2, BUF_SIZE}

\* The ciphers handed to extract_raw: none, or one keyed as extract_entry keys it
RawCiphers == {NoCrypto, [some |-> TRUE, key |-> ZipCryptoNew(ARCHIVE_PASSWORD)]}

\* lines 16-18: the hasher, the buffer, remaining = size
RCall ==
    /\ r_pc = "idle"
    /\ \E source \in SeqsUpTo(DataBytes, MaxSrcLen), pos \in 0..MaxSkip,
          size \in 0..(MaxSrcLen + 1), crypto \in RawCiphers, buf \in BufLens :
        /\ pos <= Len(source)
        /\ r_call' = [source |-> source, pos |-> pos, size |-> size, crypto |-> crypto,
                      buf |-> buf]
        /\ r_pos' = pos
        /\ r_remaining' = size
        /\ r_crypto' = crypto
    /\ r_pc' = "loop"
    /\ UNCHANGED <<r_hasher, r_sink, r_ret>>
    /\ UNCHANGED rawRest

\* lines 20-32, one pass: the chunk is read (read_exact fails, having consumed
\* any number of the bytes left, when fewer are left than asked for),
\* decrypted in place, fed to the hasher and written
RChunk ==
    /\ r_pc = "loop"
    /\ r_remaining > 0
    /\ \E to_read \in {Min(r_remaining, r_call.buf)} :
        IF r_pos + to_read > Len(r_call.source)
        THEN /\ \E consumed \in 0..(Len(r_call.source) - r_pos) : r_pos' = r_pos + consumed
             /\ r_pc' = "done"
             /\ r_ret' = [err |-> "Io", crc |-> <<0, 0, 0, 0>>]
             /\ UNCHANGED <<r_remaining, r_crypto, r_hasher, r_sink>>
        ELSE \E d \in {MaybeDecrypt(r_crypto, SubSeq(r_call.source, r_pos + 1, r_pos + to_read))} :
             /\ r_pos' = r_pos + to_read
             /\ r_crypto' = d.crypto
             /\ r_hasher' = HasherUpdate(r_hasher, d.data)
             /\ r_sink' = r_sink \o d.data
             /\ r_remaining' = r_remaining - to_read
             /\ UNCHANGED <<r_pc, r_ret>>
    /\ UNCHANGED r_call
    /\ UNCHANGED rawRest

\* line 34: Ok(hasher.finalize())
RReturn ==
    /\ r_pc = "loop"
    /\ r_remaining = 0
    /\ r_pc' = "done"
    /\ r_ret' = [err |-> "none", crc |-> Xor32(r_hasher, <<255, 255, 255, 255>>)]
    /\ UNCHANGED <<r_call, r_pos, r_remaining, r_crypto, r_hasher, r_sink>>
    /\ UNCHANGED rawRest

RawInit == StepIdle /\ ExtractIdle /\ ParseIdle /\ MvIdle /\ CryptoIdle

RawNext == RCall \/ RChunk \/ RReturn

SpecRaw == RawInit /\ [][RawNext]_vars

-----------------------------------------------------------------------------
(* bzip2::extract_bzip2, stage 2: the loop around Decompress::decompress, one
   call of the decoder at a time. The decoder is any decoder: each call
   returns one of the results of the bzip2 crate, having consumed some of the
   input left and produced some bytes. *)

BzResults == {"Ok", "MemNeeded", "FlushOk", "FinishOk", "RunOk", "StreamEnd", "Err"}

\* line 171: a decoder error is accepted if there is output
ErrAccepted_Never(total_out) == FALSE

ErrAccepted(total_out) == total_out > 0

\* lines 160-176: the match on the result: "continue" (also the fall through
\* of MemNeeded with progress), "break" or "fail"
AfterDecompress(status, consumed, produced, total_out) ==
    CASE status \in {"Ok", "FlushOk", "FinishOk", "RunOk"} -> "continue"
      [] status = "MemNeeded" -> IF consumed = 0 /\ produced = 0 THEN "break" ELSE "continue"
      [] status = "StreamEnd" -> "break"
      [] status = "Err" -> IF ErrAccepted(total_out) THEN "break" ELSE "fail"

\* lines 135-141: alz_to_bzip2 has returned bz_data
ZStart ==
    /\ z_pc = "idle"
    /\ \E n \in 0..MaxBzLen : z_len' = n
    /\ z_pc' = "loop"
    /\ UNCHANGED <<z_input_pos, z_sink, z_hasher, z_last, z_steps, z_ret>>
    /\ UNCHANGED bunzipRest

\* lines 143-177: one pass of the loop
ZDecompress ==
    /\ z_pc = "loop"
    /\ z_steps < MaxDecodes
    /\ \E status \in BzResults, consumed \in 0..(z_len - z_input_pos),
          out \in SeqsUpTo(DataBytes, MaxProduced) :
        \E next \in {AfterDecompress(status, consumed, Len(out), Len(z_sink) + Len(out))} :
            /\ z_input_pos' = z_input_pos + consumed
            /\ z_hasher' = HasherUpdate(z_hasher, out)
            /\ z_sink' = z_sink \o out
            /\ z_last' = [status |-> status, consumed |-> consumed, produced |-> Len(out)]
            /\ z_pc' = IF next = "continue" THEN "loop" ELSE "done"
            /\ z_ret' = CASE next = "continue" -> z_ret
                          [] next = "fail" -> [err |-> "Bzip2Failed", crc |-> <<0, 0, 0, 0>>]
                          [] next = "break" ->
                                [err |-> "none",
                                 crc |-> Xor32(z_hasher', <<255, 255, 255, 255>>)]
    /\ z_steps' = z_steps + 1
    /\ UNCHANGED z_len
    /\ UNCHANGED bunzipRest

BunzipInit == StepIdle /\ ExtractIdle /\ ParseIdle /\ MvIdle /\ CryptoIdle

BunzipNext == ZStart \/ ZDecompress

SpecBunzip == BunzipInit /\ [][BunzipNext]_vars

\* The same loop in two steps a pass, without a count of the passes: the call
\* of the decoder with what lines 141-155 do with its result (z_pc becomes
\* "match"), and the match of lines 157-174. The decoder produces
\* MaxPayloadLen bytes at most in all.
ZCall ==
    /\ z_pc = "loop"
    /\ \E status \in BzResults, consumed \in 0..(z_len - z_input_pos),
          out \in SeqsUpTo(DataBytes, Min(MaxProduced, MaxPayloadLen - Len(z_sink))) :
        /\ z_input_pos' = z_input_pos + consumed
        /\ z_hasher' = HasherUpdate(z_hasher, out)
        /\ z_sink' = z_sink \o out
        /\ z_last' = [status |-> status, consumed |-> consumed, produced |-> Len(out)]
    /\ z_pc' = "match"
    /\ UNCHANGED <<z_len, z_steps, z_ret>>
    /\ UNCHANGED bunzipRest

ZMatch ==
    /\ z_pc = "match"
    /\ \E next \in {AfterDecompress(z_last.status, z_last.consumed, z_last.produced,
                                     Len(z_sink))} :
        /\ z_pc' = IF next = "continue" THEN "loop" ELSE "done"
        /\ z_ret' = CASE next = "continue" -> z_ret
                      [] next = "fail" -> [err |-> "Bzip2Failed", crc |-> <<0, 0, 0, 0>>]
                      [] next = "break" ->
                            [err |-> "none", crc |-> Xor32(z_hasher, <<255, 255, 255, 255>>)]
    /\ UNCHANGED <<z_len, z_input_pos, z_sink, z_hasher, z_last, z_steps>>
    /\ UNCHANGED bunzipRest

BunzipLoopNext == ZStart \/ ZCall \/ ZMatch

\* The loop is sequential code: the step that can be made is made
SpecBunzipLive == BunzipInit /\ [][BunzipLoopNext]_vars /\ WF_vars(BunzipLoopNext)

-----------------------------------------------------------------------------
(* bzip2::alz_to_bzip2 with its BitReader and BitWriter, and the lines of
   extract_bzip2 around its call. *)

ALZ_BLOCK_MAGIC == <<68, 76, 90, 1>>
ALZ_EOS_MAGIC == <<68, 76, 90, 2>>
BZ_STREAM_HEADER == <<66, 90, 104, 57>>
BZ_BLOCK_MAGIC == <<49, 65, 89, 38, 83, 89>>
BZ_EOS_MAGIC == <<23, 114, 69, 56, 80, 144>>

Pow2(i) == CASE i = 0 -> 1 [] i = 1 -> 2 [] i = 2 -> 4 [] i = 3 -> 8 [] i = 4 -> 16
             [] i = 5 -> 32 [] i = 6 -> 64 [] i = 7 -> 128

\* BitReader::bits_remaining
bits_remaining(data, rd) ==
    IF rd.byte_pos >= Len(data) THEN 0 ELSE (Len(data) - rd.byte_pos) * 8 - rd.bit_pos

\* BitReader::read_bit
read_bit(data, rd) ==
    [bit |-> (data[rd.byte_pos + 1] \div Pow2(7 - rd.bit_pos)) % 2,
     rd |-> IF rd.bit_pos = 7 THEN [byte_pos |-> rd.byte_pos + 1, bit_pos |-> 0]
            ELSE [byte_pos |-> rd.byte_pos, bit_pos |-> rd.bit_pos + 1]]

\* BitReader::read_bits for n <= 8, the lengths alz_to_bzip2 reads
RECURSIVE ReadBitsLoop(_, _, _, _)
ReadBitsLoop(data, rd, n, val) ==
    IF n = 0 THEN [ok |-> TRUE, val |-> val, rd |-> rd]
    ELSE Only({ReadBitsLoop(data, b.rd, n - 1, val * 2 + b.bit) : b \in {read_bit(data, rd)}})

read_bits(data, rd, n) ==
    IF n > 32 \/ bits_remaining(data, rd) < n THEN [ok |-> FALSE, val |-> 0, rd |-> rd]
    ELSE ReadBitsLoop(data, rd, n, 0)

\* lines 40-43: the four bytes of a header, each read with read_bits(8)?
RECURSIVE ReadHeader(_, _, _)
ReadHeader(data, rd, hdr) ==
    IF Len(hdr) = 4 THEN [ok |-> TRUE, hdr |-> hdr, rd |-> rd]
    ELSE Only({IF ~r.ok THEN [ok |-> FALSE, hdr |-> hdr, rd |-> r.rd]
               ELSE ReadHeader(data, r.rd, Append(hdr, r.val)) :
                    r \in {read_bits(data, rd, 8)}})

\* reader.peek_bits(32)?.to_be_bytes(): the reader is not moved. The 32 bits
\* are kept as their four big-endian bytes.
peek_bits(data, rd) ==
    IF bits_remaining(data, rd) < 32 THEN [ok |-> FALSE, bytes |-> <<>>]
    ELSE [ok |-> TRUE, bytes |-> ReadHeader(data, rd, <<>>).hdr]

\* BitWriter::write_bits: one bit, then the n low bits of val from the highest
write_bit(w, bit) ==
    IF w.bit_pos = 7
    THEN [data |-> Append(w.data, w.current + bit), current |-> 0, bit_pos |-> 0]
    ELSE [data |-> w.data, current |-> w.current + bit * Pow2(7 - w.bit_pos),
          bit_pos |-> w.bit_pos + 1]

\* (val >> i) & 1, for the values alz_to_bzip2 writes: 0, or less than 2^8
BitOf(val, i) == IF val = 0 THEN 0 ELSE (val \div Pow2(i)) % 2

RECURSIVE write_bits(_, _, _)
write_bits(w, val, n) ==
    IF n = 0 THEN w
    ELSE Only({write_bits(x, val, n - 1) : x \in {write_bit(w, BitOf(val, n - 1))}})

\* BitWriter::write_bytes, and the for loops of lines 47 and 62
RECURSIVE write_bytes(_, _)
write_bytes(w, bytes) ==
    IF bytes = <<>> THEN w
    ELSE Only({write_bytes(x, Tail(bytes)) : x \in {write_bits(w, Head(bytes), 8)}})

\* BitWriter::flush and into_bytes
flush(w) ==
    IF w.bit_pos > 0 THEN [data |-> Append(w.data, w.current), current |-> 0, bit_pos |-> 0]
    ELSE w

\* lines 82-86: while bits remain, up to 8 of them are read and written
CopyRemaining_DropsBits(data, rd, w) ==
    [rd |-> [byte_pos |-> Len(data), bit_pos |-> 0], w |-> w]

RECURSIVE CopyRemaining(_, _, _)
CopyRemaining(data, rd, w) ==
    IF bits_remaining(data, rd) = 0 THEN [rd |-> rd, w |-> w]
    ELSE Only({Only({CopyRemaining(data, r.rd, x) : x \in {write_bits(w, r.val, n)}}) :
                    n \in {Min(bits_remaining(data, rd), 8)},
                    r \in {read_bits(data, rd, Min(bits_remaining(data, rd), 8))}})

\* line 93: the peeked bytes are a header
IsHeader(bytes) == bytes = ALZ_BLOCK_MAGIC \/ bytes = ALZ_EOS_MAGIC

\* line 54: the header read is not that of a block
NotBlockMagic_ThirdByteOnly(hdr) == hdr[3] # ALZ_BLOCK_MAGIC[3]

NotBlockMagic(hdr) == hdr # ALZ_BLOCK_MAGIC

\* The bits of bytes, the highest bit of a byte first
BitsOfByte(b) == [i \in 1..8 |-> (b \div Pow2(8 - i)) % 2]

RECURSIVE BitsOf(_)
BitsOf(bytes) == IF bytes = <<>> THEN <<>> ELSE BitsOfByte(Head(bytes)) \o BitsOf(Tail(bytes))

\* The bytes of bits, the last byte filled with zero bits
ByteOfBits(bits) ==
    bits[1] * 128 + bits[2] * 64 + bits[3] * 32 + bits[4] * 16 + bits[5] * 8 + bits[6] * 4
        + bits[7] * 2 + bits[8]

RECURSIVE BytesOfBits(_)
BytesOfBits(bits) ==
    IF bits = <<>> THEN <<>>
    ELSE IF Len(bits) < 8 THEN <<ByteOfBits(bits \o [i \in 1..(8 - Len(bits)) |-> 0])>>
    ELSE <<ByteOfBits(SubSeq(bits, 1, 8))>> \o BytesOfBits(SubSeq(bits, 9, Len(bits)))

\* The payload bits of a block: none, one, a run that is DLZ\1 but for its
\* last bit, the first 31 bits of DLZ\2 after a zero bit, and DLZ\1 between
\* two one bits
AlzPayloads ==
    {<<>>, <<1>>,
     SubSeq(BitsOf(ALZ_BLOCK_MAGIC), 1, 31) \o <<0, 1>>,
     <<0>> \o SubSeq(BitsOf(ALZ_EOS_MAGIC), 1, 31),
     <<1>> \o BitsOf(ALZ_BLOCK_MAGIC) \o <<1>>}

\* How a payload ends: with DLZ\2, with DLZ\2 and one more byte, with nothing
\* (a truncated payload), or with four bytes that are no header
AlzEndings == {"eos", "eos+", "none", "bad"}

EndingBits(ending) ==
    CASE ending = "eos" -> BitsOf(ALZ_EOS_MAGIC)
      [] ending = "eos+" -> BitsOf(ALZ_EOS_MAGIC \o <<255>>)
      [] ending = "none" -> <<>>
      [] ending = "bad" -> BitsOf(<<68, 76, 90, 3>>)

RECURSIVE BlockBits(_)
BlockBits(blocks) ==
    IF blocks = <<>> THEN <<>>
    ELSE BitsOf(ALZ_BLOCK_MAGIC) \o Head(blocks) \o BlockBits(Tail(blocks))

\* alz_data: the blocks, the ending, and zero bits up to a whole byte
AlzData(in) == BytesOfBits(BlockBits(in.blocks) \o EndingBits(in.ending))

AlzInputs ==
    {[blocks |-> bs, ending |-> en] : bs \in SeqsUpTo(AlzPayloads, MaxBlocks), en \in AlzEndings}

\* lines 32-35: the reader, the writer, the stream header
ECall ==
    /\ e_pc = "idle"
    /\ \E in \in AlzInputs :
        /\ e_in' = in
        /\ e_data' = AlzData(in)
    /\ e_w' = write_bytes(e_w, BZ_STREAM_HEADER)
    /\ e_pc' = "header"
    /\ UNCHANGED <<e_rd, e_hdr, e_tail, e_ret, e_sink>>
    /\ UNCHANGED reencodeRest

\* What extract_bzip2 does with an error of alz_to_bzip2, line 135: it
\* returns it, and nothing has been written
ReencodeFails(why) ==
    /\ e_pc' = "done"
    /\ e_ret' = [err |-> "Bzip2Failed", why |-> why, out |-> <<>>]
    /\ UNCHANGED <<e_w, e_sink>>

\* lines 37-69, and 104-105 when the header is DLZ\2: one pass of the outer
\* loop up to its inner loop
EHeader ==
    /\ e_pc = "header"
    /\ \E h \in {ReadHeader(e_data, e_rd, <<>>)} :
        /\ e_rd' = h.rd
        /\ e_hdr' = h.hdr
        /\ IF ~h.ok THEN ReencodeFails("unexpected end of bzip2 data")
           ELSE IF h.hdr = ALZ_EOS_MAGIC
           THEN /\ \E m \in {write_bytes(e_w, BZ_EOS_MAGIC)} :
                   \E c \in {write_bits(m, 0, 32)} : e_w' = flush(c)
                /\ e_pc' = "reencoded"
                /\ e_ret' = [err |-> "none", why |-> "", out |-> e_w'.data]
                /\ UNCHANGED e_sink
           ELSE IF NotBlockMagic(h.hdr) THEN ReencodeFails("expected ALZ block header")
           ELSE /\ \E m \in {write_bytes(e_w, BZ_BLOCK_MAGIC)} :
                   \E c \in {write_bits(m, 0, 32)} : e_w' = write_bits(c, 0, 1)
                /\ e_pc' = "copy"
                /\ UNCHANGED <<e_ret, e_sink>>
    /\ UNCHANGED <<e_in, e_data, e_tail>>
    /\ UNCHANGED reencodeRest

\* lines 80-102: one pass of the inner loop
ECopy ==
    /\ e_pc = "copy"
    /\ IF bits_remaining(e_data, e_rd) < 32
       THEN \E c \in {CopyRemaining(e_data, e_rd, e_w)} :
            /\ e_rd' = c.rd
            /\ e_w' = c.w
            /\ e_tail' = TRUE
            /\ e_pc' = "header"
       ELSE IF IsHeader(peek_bits(e_data, e_rd).bytes)
       THEN /\ e_pc' = "header"
            /\ e_tail' = FALSE
            /\ UNCHANGED <<e_rd, e_w>>
       ELSE \E b \in {read_bits(e_data, e_rd, 1)} :
            /\ e_rd' = b.rd
            /\ e_w' = write_bits(e_w, b.val, 1)
            /\ UNCHANGED <<e_pc, e_tail>>
    /\ UNCHANGED <<e_in, e_data, e_hdr, e_ret, e_sink>>
    /\ UNCHANGED reencodeRest

\* extract_bzip2, lines 137-179: the decoder runs on bz_data and what it
\* produces is written
EDecode ==
    /\ e_pc = "reencoded"
    /\ \E out \in SeqsUpTo(DataBytes, MaxProduced) : e_sink' = out
    /\ e_pc' = "done"
    /\ UNCHANGED <<e_in, e_data, e_rd, e_w, e_hdr, e_tail, e_ret>>
    /\ UNCHANGED reencodeRest

ReencodeInit == StepIdle /\ ExtractIdle /\ ParseIdle /\ MvIdle /\ CryptoIdle

ReencodeNext == ECall \/ EHeader \/ ECopy \/ EDecode

SpecReencode == ReencodeInit /\ [][ReencodeNext]_vars

\* The loops are sequential code: a step that can be taken is taken
SpecReencodeLive == SpecReencode /\ WF_vars(ReencodeNext)

-----------------------------------------------------------------------------
(* deflate::extract_deflate, one pass of its loop at a time. The inflater is
   any inflater: each call returns a status or an error, having consumed some
   of the bytes of the input buffer and produced some bytes, MaxInflated at
   most in all. The buffers are counted, their bytes left out. *)

InflateStatuses == {"Ok", "BufError", "StreamEnd", "Err"}

\* lines 28-36: the refill; ok is whether read_exact had its bytes
Refill(in_avail, remaining, src_left, buf) ==
    IF in_avail = 0 /\ remaining > 0
    THEN [ok |-> Min(remaining, buf) <= src_left,
          in_avail |-> Min(remaining, buf),
          remaining |-> remaining - Min(remaining, buf),
          src_left |-> src_left - Min(Min(remaining, buf), src_left)]
    ELSE [ok |-> TRUE, in_avail |-> in_avail, remaining |-> remaining, src_left |-> src_left]

\* lines 60-66: the two tests that leave the loop
LoopEnds_OnEmptyInput(status, in_avail, remaining, produced) ==
    status = "StreamEnd" \/ (in_avail = 0 /\ remaining = 0)

LoopEnds(status, in_avail, remaining, produced) ==
    status = "StreamEnd" \/ (in_avail = 0 /\ remaining = 0 /\ produced = 0)

\* lines 19-24
DCall ==
    /\ d_pc = "idle"
    /\ \E size \in 0..MaxCompressed, source \in 0..MaxCompressed, buf \in {1, 2, IN_BUF_SIZE} :
        /\ d_call' = [compressed_size |-> size, source |-> source, buf |-> buf]
        /\ d_src_left' = source
        /\ d_remaining' = size
    /\ d_pc' = "loop"
    /\ UNCHANGED <<d_in_avail, d_total_out, d_last, d_ret>>
    /\ UNCHANGED inflateRest

\* lines 26-67: one pass of the loop
DPass ==
    /\ d_pc = "loop"
    /\ \E f \in {Refill(d_in_avail, d_remaining, d_src_left, d_call.buf)} :
        /\ d_src_left' = f.src_left
        /\ IF ~f.ok
           THEN /\ d_pc' = "done"
                /\ d_ret' = "Io"
                /\ UNCHANGED <<d_remaining, d_in_avail, d_total_out, d_last>>
           ELSE \E status \in InflateStatuses, consumed \in 0..f.in_avail,
                   produced \in 0..Min(MaxProduced, MaxInflated - d_total_out) :
                /\ d_remaining' = f.remaining
                /\ d_last' = [status |-> status, consumed |-> consumed, produced |-> produced]
                /\ IF status = "Err"
                   THEN /\ d_pc' = "done"
                        /\ d_ret' = "InflateFailed"
                        /\ d_in_avail' = f.in_avail
                        /\ UNCHANGED d_total_out
                   ELSE /\ d_in_avail' = f.in_avail - consumed
                        /\ d_total_out' = d_total_out + produced
                        /\ d_pc' = IF LoopEnds(status, d_in_avail', f.remaining, produced)
                                   THEN "done" ELSE "loop"
                        /\ UNCHANGED d_ret
    /\ UNCHANGED d_call
    /\ UNCHANGED inflateRest

InflateInit == StepIdle /\ ExtractIdle /\ ParseIdle /\ MvIdle /\ CryptoIdle

InflateNext == DCall \/ DPass

SpecInflate == InflateInit /\ [][InflateNext]_vars

\* The loop is sequential code: a pass that can be made is made
SpecInflateLive == SpecInflate /\ WF_vars(InflateNext)

-----------------------------------------------------------------------------
(* The round trip of crypto.rs's tests as a state machine: two ciphers are *)
(* constructed, the first encrypts a buffer, the second decrypts it.       *)

CNew1 ==
    /\ c_pc = "start"
    /\ \E p \in Passwords :
        /\ c_pwd1' = p
        /\ c_key1' = ZipCryptoNew(p)
    /\ c_pc' = "new1"
    /\ UNCHANGED <<c_pwd2, c_key2, c_plain, c_data>>
    /\ UNCHANGED <<mvVars, parseVars, extractVars, stepVars>>

CNew2 ==
    /\ c_pc = "new1"
    /\ \E p \in Passwords :
        /\ c_pwd2' = p
        /\ c_key2' = ZipCryptoNew(p)
    /\ c_pc' = "new2"
    /\ UNCHANGED <<c_pwd1, c_key1, c_plain, c_data>>
    /\ UNCHANGED <<mvVars, parseVars, extractVars, stepVars>>

CEncrypt ==
    /\ c_pc = "new2"
    /\ \E x \in Plaintexts :
        LET r == encrypt(c_key1, x)
        IN  /\ c_plain' = x
            /\ c_data' = r.data
            /\ c_key1' = r.key
    /\ c_pc' = "encrypted"
    /\ UNCHANGED <<c_pwd1, c_pwd2, c_key2>>
    /\ UNCHANGED <<mvVars, parseVars, extractVars, stepVars>>

CDecrypt ==
    /\ c_pc = "encrypted"
    /\ LET r == decrypt(c_key2, c_data)
       IN  /\ c_data' = r.data
           /\ c_key2' = r.key
    /\ c_pc' = "decrypted"
    /\ UNCHANGED <<c_pwd1, c_pwd2, c_key1, c_plain>>
    /\ UNCHANGED <<mvVars, parseVars, extractVars, stepVars>>

CryptoInit == CryptoIdle /\ MvIdle /\ ParseIdle /\ ExtractIdle /\ StepIdle

\* The 12-byte encryption headers: constant bytes, and what an archiver makes
\* of a password and a check byte
EncHeaders ==
    {[k \in 1..ENCR_HEADER_LEN |-> b] : b \in {0, 255}}
    \cup {encrypt(ZipCryptoNew(p), <<1, 2, 3, 4, 5, 6, 7, 8, 9, 10, 11, c>>).data :
            p \in {<<97>>, <<255, 98>>}, c \in {0, 77}}

\* extract_entry, lines 25-33: check_header on the cipher made from the
\* password (CNew1); the cipher is kept as the check leaves it
HCheck ==
    /\ c_pc = "new1"
    /\ \E h \in EncHeaders, is_dd \in BOOLEAN :
        /\ c_key1' = check_header(c_key1, h, <<0, 0, 0, 0>>, ENTRY_TIME, is_dd).key
        /\ c_data' = h
    /\ c_pc' = "checked"
    /\ UNCHANGED <<c_pwd1, c_pwd2, c_key2, c_plain>>
    /\ UNCHANGED <<mvVars, parseVars, extractVars, stepVars>>

\* Lines 34-38: a second cipher from the same password, run over the header
HReplay ==
    /\ c_pc = "checked"
    /\ c_pwd2' = c_pwd1
    /\ c_key2' = PayloadCipher(c_pwd1, c_data)
    /\ c_pc' = "replayed"
    /\ UNCHANGED <<c_pwd1, c_key1, c_plain, c_data>>
    /\ UNCHANGED <<mvVars, parseVars, extractVars, stepVars>>

\* A payload decrypted by the cipher that made the check (into c_plain) and by
\* the second one (into c_data)
HPayload ==
    /\ c_pc = "replayed"
    /\ \E x \in Plaintexts :
        /\ c_plain' = decrypt(c_key1, x).data
        /\ c_data' = decrypt(c_key2, x).data
    /\ c_pc' = "payload"
    /\ UNCHANGED <<c_pwd1, c_pwd2, c_key1, c_key2>>
    /\ UNCHANGED <<mvVars, parseVars, extractVars, stepVars>>

HeaderNext == CNew1 \/ HCheck \/ HReplay \/ HPayload

SpecHeader == CryptoInit /\ [][HeaderNext]_vars

CryptoNext == CNew1 \/ CNew2 \/ CEncrypt \/ CDecrypt

SpecCrypto == CryptoInit /\ [][CryptoNext]_vars

\* test_crc32_table_spot_check
TableSpotCheck ==
    /\ CRC32_TABLE[0 + 1] = <<0, 0, 0, 0>>
    /\ CRC32_TABLE[1 + 1] = <<150, 48, 7, 119>>
    /\ CRC32_TABLE[255 + 1] = <<141, 239, 2, 45>>

\* C8: cipher round trip. When the decrypting cipher was constructed from the
\* password of the encrypting one, decrypting the encrypted buffer gives back
\* the original data, byte for byte and of the same length.
C8_CipherRoundTrip ==
    (c_pc = "decrypted" /\ c_pwd1 = c_pwd2) =>
        (Len(c_data) = Len(c_plain) /\ c_data = c_plain)

C8_Witness ==
    /\ c_pc = "decrypted"
    /\ c_pwd1 = c_pwd2
    /\ Len(c_pwd1) = MaxPwLen
    /\ Len(c_plain) = MaxDataLen
    /\ c_data = c_plain

\* C9: the key of a freshly constructed cipher is a function of the password
\* alone. The empty password leaves the initial triple, and two ciphers have
\* equal keys exactly when their passwords are equal (over the passwords of
\* at most MaxPwLen bytes of PwBytes).
C9_KeysDependOnlyOnPassword ==
    /\ (c_pc \in {"new1", "new2"} /\ c_pwd1 = <<>>) => c_key1 = InitialKeys
    /\ c_pc = "new2" => ((c_pwd1 = c_pwd2) <=> (c_key1 = c_key2))

C9_Witness ==
    /\ c_pc = "new2"
    /\ Len(c_pwd1) = MaxPwLen
    /\ Len(c_pwd2) = MaxPwLen
    /\ c_pwd1 # c_pwd2
    /\ c_key1 # c_key2

-----------------------------------------------------------------------------
(* The multi-volume reader's claims, under SpecMV. *)

\* The concatenation of the physical ranges [header_size, file_size - tail_size)
\* of volumes 0..n-1
RECURSIVE Concatenation(_, _)
Concatenation(vols, n) ==
    IF n = 0 THEN <<>>
    ELSE Concatenation(vols, n - 1)
         \o SubSeq(vols[n - 1].bytes, vols[n - 1].header_size + 1,
                   vols[n - 1].file_size - vols[n - 1].tail_size)

VirtualStream == Concatenation(volumes, NumVolumes)

\* The volume file a byte of the opened files comes from
VolumeOfByte(b) == b \div 40

\* C1: multi-volume transparency. After a seek to an offset a <= total_size has
\* succeeded, the bytes the reads have returned since are bytes [a, a + k) of
\* the concatenation of the volumes' data ranges (so none is a band byte), and
\* a read into a non-empty buffer returns no byte only at total_size.
C1_MultiVolumeTransparency ==
    (mv_pc = "open" /\ mv_base >= 0 /\ mv_base <= total_size) =>
        /\ mv_base + Len(mv_got) <= total_size
        /\ mv_got = SubSeq(VirtualStream, mv_base + 1, mv_base + Len(mv_got))
        /\ (mv_last.op = "read" /\ ~mv_last.empty_buf /\ mv_last.val = 0) =>
                mv_base + Len(mv_got) = total_size

\* one read that returns bytes of two volumes with a third between them
C1_Witness ==
    /\ mv_pc = "open"
    /\ mv_base >= 0
    /\ mv_last.op = "read"
    /\ mv_last.val = 2
    /\ Len(mv_got) = 2
    /\ VolumeOfByte(mv_got[1]) = 0
    /\ VolumeOfByte(mv_got[2]) = 2

\* C6 as claimed: a seek to an offset greater than total_size succeeds.
C6_SeekPastEndSucceeds ==
    (mv_last.op = "seek" /\ mv_last.case.past_end) => mv_last.ok

\* C6 as amended: a seek to an offset greater than total_size fails with an I/O
\* error; a seek to total_size itself succeeds and every read after it returns
\* 0 bytes.
C6_SeekPastEndFails ==
    /\ (mv_last.op = "seek" /\ mv_last.case.past_end) =>
            (~mv_last.ok /\ mv_last.err = "Other")
    /\ (mv_last.op = "seek" /\ mv_last.case.at_end) =>
            (mv_last.ok /\ mv_last.val = total_size)
    /\ (mv_last.op = "read" /\ mv_base = total_size) => mv_last.val = 0

C6_Witness ==
    /\ mv_last.op = "seek"
    /\ mv_last.case.past_end
    /\ total_size > 0
    /\ NumVolumes > 1
    /\ ~mv_last.ok

\* C7: a seek whose target lies before offset 0 fails with an I/O error and
\* returns no position: SeekFrom::Current(delta) with -delta greater than the
\* virtual position, SeekFrom::End(delta) with delta < -total_size.
C7_SeekBeforeStartFails ==
    (mv_last.op = "seek" /\ mv_last.case.before_start)
    => (~mv_last.ok /\ mv_last.err \in {"InvalidInput", "Other"})

C7_Witness ==
    /\ mv_last.op = "seek"
    /\ mv_last.case.from = "Current"
    /\ mv_last.case.before_start
    /\ total_size > 0
    /\ ~mv_last.ok
    /\ mv_last.err = "InvalidInput"

C7_WitnessEnd ==
    /\ mv_last.op = "seek"
    /\ mv_last.case.from = "End"
    /\ mv_last.case.before_start
    /\ total_size > 0
    /\ ~mv_last.ok
    /\ mv_last.err = "Other"

-----------------------------------------------------------------------------
(* Unknown signatures *)

AlzHeaderReadBefore == \E i \in 1..(Len(p_sigs) - 1) : p_sigs[i] = SIG_ALZ_FILE_HEADER

\* C5: when the signature parse reads is none of the six known ones, opening
\* fails: with NotAlzFile if no ALZ\1 header was read before it, with
\* CorruptedFile otherwise; no archive, and so no entry table, is returned.
C5_UnknownSignature ==
    (p_sigs # <<>> /\ Last(p_sigs) \notin KnownSignatures) =>
        /\ p_pc = "err"
        /\ p_err = IF AlzHeaderReadBefore THEN "CorruptedFile" ELSE "NotAlzFile"
        /\ entries = <<>>

\* an unknown signature after the ALZ\1 header and a local file header
C5_Witness ==
    /\ p_pc = "err"
    /\ p_err = "CorruptedFile"
    /\ Len(p_sigs) = 3
    /\ p_sigs[1] = SIG_ALZ_FILE_HEADER
    /\ p_sigs[2] = SIG_LOCAL_FILE_HEADER
    /\ p_sigs[3] \notin KnownSignatures

\* an unknown signature at the head of the input
C5_WitnessNotAlz ==
    /\ p_pc = "err"
    /\ p_err = "NotAlzFile"
    /\ p_sigs = <<RecUnknown>>

-----------------------------------------------------------------------------
(* extract_entry *)

\* The call was made on a regular file entry: neither a directory nor a symlink
RegularCall ==
    /\ x_last.op = "extract"
    /\ ~is_directory(x_last.entry)
    /\ ~is_symlink(x_last.entry)

\* What the call delivered to its sink: the bytes standard output gained in pipe
\* mode, the contents of the files the file system gained otherwise
Delivered ==
    IF x_last.pipe_mode
    THEN {SubSeq(x_stdout, Len(x_last.pre.stdout) + 1, Len(x_stdout))}
    ELSE {f.data : f \in x_fs.files \ x_last.pre.fs.files}

\* C2: a call of extract_entry on a regular file entry returns Ok only if it
\* delivered bytes to its sink (standard output in pipe mode, the file it
\* created otherwise) and their CRC-32 is the file_crc the entry declares; when
\* the extractor finished and the CRC-32 of the bytes it delivered differs from
\* file_crc, the call returns InvalidFileCrc with expected = file_crc and
\* got = the CRC-32 of those bytes.
C2_CrcVerified ==
    RegularCall =>
        /\ x_last.err = "none" =>
            /\ Delivered # {}
            /\ \A bytes \in Delivered : Crc32(bytes) = x_last.entry.file_crc
        /\ (x_last.verified /\ Crc32(x_last.written) # x_last.entry.file_crc) =>
            /\ x_last.err = "InvalidFileCrc"
            /\ x_last.expected = x_last.entry.file_crc
            /\ x_last.got = Crc32(x_last.written)

C2_Witness ==
    /\ RegularCall
    /\ x_last.err = "InvalidFileCrc"
    /\ x_last.written = <<104>>
    /\ x_last.got = <<231, 6, 107, 145>>
    /\ x_last.expected = <<230, 6, 107, 145>>

C2_WitnessOk ==
    /\ RegularCall
    /\ x_last.err = "none"
    /\ ~x_last.pipe_mode
    /\ \E f \in x_fs.files : f.data = <<104>>

\* The last byte of the encryption header of the entry of the call, decrypted
\* with the password of the call
LastHeaderByte ==
    decrypt(ZipCryptoNew(x_last.password.val), x_last.entry.enc_check).data[ENCR_HEADER_LEN]

\* The byte the entry's own descriptor bit selects: (file_time_date >> 8) as u8
\* with the data-descriptor bit, (file_crc >> 24) as u8 without
OwnCheckByte ==
    IF HasBit(x_last.entry.file_descriptor, DESC_DATA_DESCR)
    THEN x_last.entry.file_time_date[2]
    ELSE x_last.entry.file_crc[4]

\* The call left the reader, standard output and the file system as they were
Untouched ==
    /\ ReaderOf(volumes, cur_volume, virtual_pos) = x_last.pre.rd
    /\ x_stdout = x_last.pre.stdout
    /\ x_fs = x_last.pre.fs

EncryptedCall == x_last.op = "extract" /\ is_encrypted_entry(x_last.entry)

\* C3: a call of extract_entry on an encrypted entry without a password returns
\* PasswordNotSet, and with a password under which the last byte of the 12-byte
\* encryption header does not decrypt to the check byte it returns
\* InvalidPassword; either way the reader is where it was, standard output has
\* gained nothing, and the file system has no new file or directory.
C3_PasswordRefusal ==
    EncryptedCall =>
        /\ ~x_last.password.some =>
            x_last.err = "PasswordNotSet" /\ Untouched
        /\ (x_last.password.some /\ LastHeaderByte # OwnCheckByte) =>
            x_last.err = "InvalidPassword" /\ Untouched

C3_Witness ==
    /\ EncryptedCall
    /\ x_last.password = [some |-> TRUE, val |-> <<98>>]
    /\ x_last.err = "InvalidPassword"

C3_WitnessNotSet ==
    /\ EncryptedCall
    /\ ~x_last.password.some
    /\ x_last.err = "PasswordNotSet"

\* C10: whenever extract_entry calls check_header, it returns true iff the last
\* of the 12 decrypted header bytes is (file_time_date >> 8) as u8 for an entry
\* with the data-descriptor bit and (file_crc >> 24) as u8 for an entry without;
\* the bit is the entry's own, whatever the archive-wide flag is.
C10_HeaderCheckByte ==
    (x_last.op = "extract" /\ x_last.checked) =>
        (x_last.header_ok <=> LastHeaderByte = OwnCheckByte)

C10_Witness ==
    /\ x_last.op = "extract"
    /\ x_last.checked
    /\ x_last.header_ok
    /\ x_last.archive_dd
    /\ ~HasBit(x_last.entry.file_descriptor, DESC_DATA_DESCR)

C10_WitnessTime ==
    /\ x_last.op = "extract"
    /\ x_last.checked
    /\ x_last.header_ok
    /\ HasBit(x_last.entry.file_descriptor, DESC_DATA_DESCR)
    /\ x_last.entry.file_time_date[2] # x_last.entry.file_crc[4]

\* The name of the entry of the call with its backslashes replaced
CallName == Replace(x_last.entry.file_name, BACKSLASH, SLASH)

NameHasDotDotSlash == Contains(CallName, <<DOT, DOT, SLASH>>)

IsUnder(path, dir) == Len(dir) <= Len(path) /\ SubSeq(path, 1, Len(dir)) = dir

\* The resolved destination path of the call: the canonical path of the parent
\* of dest_dir/name, made if it was not there, with the last component of the
\* name; ok is whether the destination directory and the parent resolve
ResolvedDest ==
    LET dest_path == join(DEST_DIR, CallName)
        dest == canonicalize(x_last.pre.fs, DEST_DIR)
        made == create_dir_all(x_last.pre.fs, Front(dest_path))
        parent == canonicalize(made.fs, Front(dest_path))
    IN  IF dest_path = <<>> THEN [ok |-> dest.ok, path |-> <<>>, dest |-> dest.path]
        ELSE [ok |-> dest.ok /\ made.ok /\ parent.ok,
              path |-> parent.path \o (IF Last(dest_path) = PARENT_DIR THEN <<>>
                                       ELSE <<Last(dest_path)>>),
              dest |-> dest.path]

ResolvedOutside ==
    /\ ~x_last.pipe_mode
    /\ ~NameHasDotDotSlash
    /\ ResolvedDest.ok
    /\ ~IsUnder(ResolvedDest.path, ResolvedDest.dest)

\* The call was refused with PathTraversal and wrote nothing
RefusedUnwritten ==
    /\ x_last.err = "PathTraversal"
    /\ x_fs.files = x_last.pre.fs.files
    /\ x_fs.links = x_last.pre.fs.links
    /\ x_stdout = x_last.pre.stdout

\* The call got past the password check of an encrypted entry
PastPasswordCheck ==
    is_encrypted_entry(x_last.entry) => (x_last.checked /\ x_last.header_ok)

\* C4 as stated: every call on an entry whose name, with backslashes replaced,
\* contains "../", and in non-pipe mode every call on an entry whose resolved
\* destination is not under the canonical destination directory, is refused
\* with PathTraversal and writes no file.
C4_EveryTraversalRefused ==
    (x_last.op = "extract" /\ (NameHasDotDotSlash \/ ResolvedOutside)) => RefusedUnwritten

\* C4: a call that is past the password check is refused with PathTraversal,
\* and writes no file, when the name of its entry, with backslashes replaced,
\* contains "../", and in non-pipe mode when the resolved destination is not
\* under the canonical destination directory.
C4_TraversalRefusedAfterPassword ==
    (x_last.op = "extract" /\ PastPasswordCheck /\ (NameHasDotDotSlash \/ ResolvedOutside))
        => RefusedUnwritten

C4_Witness ==
    /\ x_last.op = "extract"
    /\ ~x_last.pipe_mode
    /\ ~is_encrypted_entry(x_last.entry)
    /\ x_last.entry.file_name = <<115, 47, 97>>
    /\ ResolvedOutside
    /\ x_last.err = "PathTraversal"

C4_WitnessDotDot ==
    /\ x_last.op = "extract"
    /\ PastPasswordCheck
    /\ is_encrypted_entry(x_last.entry)
    /\ x_last.entry.file_name = <<46, 46, 92, 97>>
    /\ x_last.err = "PathTraversal"

-----------------------------------------------------------------------------
(* Determinism *)

\* Two calls with the same arguments
SameCall(c, d) ==
    c.index = d.index /\ c.entry = d.entry /\ c.password = d.password /\ c.pipe_mode = d.pipe_mode

\* The reader of the last call rewound: every volume at its start
Rewound(rd) ==
    ReaderOf([v \in DOMAIN rd.volumes |-> [rd.volumes[v] EXCEPT !.pos = 0]], 0, 0)

\* What the last call does from the rewound reader, all else the same
FromRewound ==
    extract_entry(CryptoFor(x_last.archive_dd, x_last.entry, x_last.password),
                  Rewound(x_last.pre.rd), x_last.pre.fs, x_last.pre.stdout, x_last.entry,
                  DEST_DIR, x_last.pipe_mode, x_last.dec)

\* C11: a second parse of the same bytes ends with the entry table of the
\* first; two calls of extract_entry on the same entry with the same password
\* and mode, whatever calls lie between them, hand the same bytes to their
\* writer and compute the same CRC, and return the same result unless the entry
\* is a symlink extracted to the file system (whose link then exists already);
\* and what a call returns, writes and computes is what it would from a reader
\* left at the start of the archive.
C11_Determinism ==
    /\ (p_pc = "ok" /\ x_table.some) => entries = x_table.entries
    /\ \A m, n \in 1..Len(x_hist) :
        SameCall(x_hist[m], x_hist[n]) =>
            /\ x_hist[m].written = x_hist[n].written
            /\ x_hist[m].got = x_hist[n].got
            /\ \/ x_hist[m].err = x_hist[n].err
               \/ is_symlink(x_hist[m].entry) /\ ~x_hist[m].pipe_mode
    /\ (x_last.op = "extract" /\ x_hist # <<>>) =>
        /\ FromRewound.err = x_last.err
        /\ FromRewound.written = x_last.written
        /\ FromRewound.got = x_last.got
        /\ FromRewound.fs = x_fs
        /\ FromRewound.stdout = x_stdout

\* The encrypted file "a" extracted, then "b", then "a" again after a second parse
C11_Witness ==
    /\ p_pc = "ok"
    /\ x_table.some
    /\ Len(x_hist) = 3
    /\ x_hist[1].index = 1 /\ x_hist[2].index = 2 /\ SameCall(x_hist[1], x_hist[3])
    /\ is_encrypted_entry(x_hist[1].entry)
    /\ x_hist[3].err = "none"
    /\ x_hist[3].written = <<104>>
    /\ x_last.pre.rd.virtual_pos # entries[1].data_pos

-----------------------------------------------------------------------------
(* extract_raw *)

\* The n bytes of the source from where it stood at the call
RawPayload == SubSeq(r_call.source, r_call.pos + 1, r_call.pos + r_call.size)

\* They as one decryption by the cipher handed in makes them (themselves without one)
RawExpected == MaybeDecrypt(r_call.crypto, RawPayload).data

\* C12: extract_raw called with size n on a source that holds at least n bytes
\* from its position returns Ok, has moved the source by exactly n bytes, has
\* written to the writer exactly those n bytes in order, decrypted as one run
\* of the cipher's key stream whatever the chunk length, and returns the
\* CRC-32 of the bytes written.
C12_RawCopiesExactly ==
    (r_pc = "done" /\ r_call.pos + r_call.size <= Len(r_call.source)) =>
        /\ r_ret.err = "none"
        /\ r_pos = r_call.pos + r_call.size
        /\ r_sink = RawExpected
        /\ Len(r_sink) = r_call.size
        /\ r_ret.crc = Crc32(r_sink)

\* Three bytes through a cipher in chunks of two and one
C12_Witness ==
    /\ r_pc = "done"
    /\ r_ret.err = "none"
    /\ r_call.crypto.some
    /\ r_call.buf = 2
    /\ r_call.size = 3
    /\ Len(r_call.source) = 3
    /\ r_sink # RawPayload

\* The chunk length of the code, where a source of the model is one chunk
C12_WitnessOneChunk ==
    /\ r_pc = "done"
    /\ r_ret.err = "none"
    /\ r_call.buf = BUF_SIZE
    /\ r_call.size = 2
    /\ ~r_call.crypto.some
    /\ r_sink = RawPayload

-----------------------------------------------------------------------------
(* Directory entries *)

\* The name of the entry of the call passes both checks of extract_entry: it
\* has no "../" once its backslashes are replaced and, where the destination
\* is resolved (not in pipe mode), it resolves under the destination directory
SafelyNamed ==
    /\ ~NameHasDotDotSlash
    /\ ~x_last.pipe_mode => (ResolvedDest.ok /\ IsUnder(ResolvedDest.path, ResolvedDest.dest))

DirectoryCall ==
    /\ x_last.op = "extract"
    /\ is_directory(x_last.entry)
    /\ ~is_encrypted_entry(x_last.entry)
    /\ SafelyNamed

\* C13: a call on a non-encrypted, safely named entry with the directory
\* attribute returns Ok, leaves the reader where it was (no payload byte is
\* read), hands no byte to a writer, leaves standard output and the files and
\* links of the file system as they were, and compares no CRC.
C13_DirectoryNoOutput ==
    DirectoryCall =>
        /\ x_last.err = "none"
        /\ ReaderOf(volumes, cur_volume, virtual_pos) = x_last.pre.rd
        /\ x_last.written = <<>>
        /\ x_stdout = x_last.pre.stdout
        /\ x_fs.files = x_last.pre.fs.files
        /\ x_fs.links = x_last.pre.fs.links
        /\ ~x_last.verified

\* A directory entry with a payload and a declared CRC the payload does not have
C13_Witness ==
    /\ DirectoryCall
    /\ ~x_last.pipe_mode
    /\ x_last.entry.compressed_size > 0
    /\ x_last.entry.file_crc # Crc32(INTENDED)
    /\ x_last.pre.rd.virtual_pos # x_last.entry.data_pos
    /\ x_fs.dirs # x_last.pre.fs.dirs

C13_WitnessPipe ==
    /\ DirectoryCall
    /\ x_last.pipe_mode
    /\ x_last.entry.compressed_size > 0
    /\ x_fs = x_last.pre.fs

-----------------------------------------------------------------------------
(* The payloads of the entries lie inside the archive *)

\* C14: when parse has returned Ok, data_pos + compressed_size of every entry
\* is at most the total virtual size of the reader.
C14_PayloadInsideArchive ==
    p_pc = "ok" =>
        \A i \in 1..Len(entries) :
            entries[i].data_pos + entries[i].compressed_size <= total_size

\* An archive whose last byte is the last payload byte of an entry
C14_Witness ==
    /\ p_pc = "ok"
    /\ \E i \in 1..Len(entries) :
        /\ entries[i].compressed_size > 0
        /\ entries[i].data_pos + entries[i].compressed_size = total_size

\* The entry that declares five payload bytes, with at least five bytes of
\* other records after its header
C14_WitnessSkipsRecords ==
    /\ p_pc = "ok"
    /\ \E i \in 1..Len(entries) :
        /\ entries[i].compressed_size = 5
        /\ entries[i].data_pos + 5 < total_size

-----------------------------------------------------------------------------
(* Decoder errors in stage 2 of the ALZ-BZIP2 extractor *)

DecoderFailed == z_pc = "done" /\ z_last.status = "Err"

\* C15: when the decoder returns an error, extract_bzip2 returns Ok with the
\* CRC-32 of the output written so far if and only if at least one output
\* byte has been produced, and returns Bzip2Failed if none has.
C15_ErrorSwallowedIffOutput ==
    DecoderFailed =>
        /\ (z_ret.err = "none" /\ z_ret.crc = Crc32(z_sink)) <=> Len(z_sink) > 0
        /\ Len(z_sink) = 0 => z_ret.err = "Bzip2Failed"
        /\ z_ret.err \in {"none", "Bzip2Failed"}

\* An error on a later call, after an earlier call produced a byte
C15_Witness ==
    /\ DecoderFailed
    /\ z_steps > 1
    /\ z_last.produced = 0
    /\ Len(z_sink) > 0
    /\ z_ret.err = "none"

\* An error on the first call with nothing produced
C15_WitnessNoOutput ==
    /\ DecoderFailed
    /\ z_steps = 1
    /\ z_sink = <<>>
    /\ z_ret.err = "Bzip2Failed"

\* An error after calls that consumed input but produced nothing
C15_WitnessLateNoOutput ==
    /\ DecoderFailed
    /\ z_steps > 1
    /\ z_input_pos > 0
    /\ z_sink = <<>>
    /\ z_ret.err = "Bzip2Failed"

-----------------------------------------------------------------------------
(* The ALZ-BZIP2 re-encoder *)

Zeros(n) == [i \in 1..n |-> 0]

\* The standard stream of the blocks: the stream header, for each block the
\* block magic, 32 zero bits, one zero bit and the payload bits, then the
\* end-of-stream magic and 32 zero bits
RECURSIVE StandardBlocks(_)
StandardBlocks(blocks) ==
    IF blocks = <<>> THEN <<>>
    ELSE BitsOf(BZ_BLOCK_MAGIC) \o Zeros(32) \o <<0>> \o Head(blocks)
            \o StandardBlocks(Tail(blocks))

StandardStream(blocks) ==
    BytesOfBits(BitsOf(BZ_STREAM_HEADER) \o StandardBlocks(blocks) \o BitsOf(BZ_EOS_MAGIC)
                    \o Zeros(32))

\* One of the two markers lies at bit offset o of bits
MarkerAt(bits, o) ==
    /\ o + 32 <= Len(bits)
    /\ SubSeq(bits, o + 1, o + 32) \in {BitsOf(ALZ_BLOCK_MAGIC), BitsOf(ALZ_EOS_MAGIC)}

\* A marker lies inside the payload bits
MarkerInside(payload) == \E o \in 0..Len(payload) : MarkerAt(payload, o)

\* A marker begins inside the payload bits when the marker that follows the
\* payload is put after them
MarkerBeginsInside(payload, next) ==
    \E o \in 0..(Len(payload) - 1) : MarkerAt(payload \o BitsOf(next), o)

FollowingMarker(i) == IF i < Len(e_in.blocks) THEN ALZ_BLOCK_MAGIC ELSE ALZ_EOS_MAGIC

\* alz_to_bzip2 has returned, on blocks followed by DLZ\2
ReencodedWhole == e_pc \in {"reencoded", "done"} /\ e_in.ending = "eos"

\* C16: for blocks whose payload bits contain neither marker at any bit
\* offset, followed by DLZ\2, the output is "BZh9", then for each block the
\* 48 bits 0x314159265359, 32 zero bits, one 0 bit and the payload bits of the
\* block, then the 48 bits 0x177245385090 and 32 zero bits, zero-padded to a
\* byte boundary, and nothing else.
C16_MarkerFreePayloads ==
    (ReencodedWhole /\ \A i \in 1..Len(e_in.blocks) : ~MarkerInside(e_in.blocks[i])) =>
        (e_ret.err = "none" /\ e_ret.out = StandardStream(e_in.blocks))

\* What does hold of the re-encoder: for blocks followed by DLZ\2 in which no
\* marker begins inside the payload bits of a block, the marker that follows
\* the block taken into account, the output is "BZh9", then for each block the 48 bits
\* 0x314159265359, 32 zero bits, one 0 bit and the payload bits of the block,
\* then the 48 bits 0x177245385090 and 32 zero bits, zero-padded to a byte
\* boundary, and nothing else.
C16_ReencodesBlocks ==
    (ReencodedWhole /\ \A i \in 1..Len(e_in.blocks) :
                            ~MarkerBeginsInside(e_in.blocks[i], FollowingMarker(i))) =>
        (e_ret.err = "none" /\ e_ret.out = StandardStream(e_in.blocks))

\* Two blocks, the first of one bit, the second of 33 bits that are DLZ\1 but
\* for one bit
C16_Witness ==
    /\ ReencodedWhole
    /\ Len(e_in.blocks) = 2
    /\ e_in.blocks[1] = <<1>>
    /\ Len(e_in.blocks[2]) = 33
    /\ ~MarkerBeginsInside(e_in.blocks[2], ALZ_EOS_MAGIC)
    /\ e_ret.out = StandardStream(e_in.blocks)
    /\ Len(e_ret.out) = 39

\* No block
C16_WitnessEmpty ==
    /\ ReencodedWhole
    /\ e_in.blocks = <<>>
    /\ e_ret.out = BZ_STREAM_HEADER \o BZ_EOS_MAGIC \o <<0, 0, 0, 0>>

-----------------------------------------------------------------------------
(* The end of the input while a block is copied *)

\* The bits the writer holds, and the bits the reader has not read
WriterBits(w) == BitsOf(w.data) \o SubSeq(BitsOfByte(w.current), 1, w.bit_pos)

UnreadBits(data, rd) == SubSeq(BitsOf(data), rd.byte_pos * 8 + rd.bit_pos + 1, Len(data) * 8)

\* The inner loop is at its top with fewer than 32 bits to read
FewBitsLeft == e_pc = "copy" /\ bits_remaining(e_data, e_rd) < 32

\* The pass of the inner loop from there: what remains is copied, in order, and
\* control is at the top of the outer loop with nothing left to read
CopiesWhatRemains ==
    [][FewBitsLeft =>
            /\ WriterBits(e_w') = WriterBits(e_w) \o UnreadBits(e_data, e_rd)
            /\ bits_remaining(e_data, e_rd') = 0
            /\ e_pc' = "header"]_vars

\* alz_to_bzip2 has returned after the inner loop ran out of input
ReturnedAfterTail == e_tail /\ e_pc \in {"reencoded", "done"}

EndOfStreamWritten ==
    /\ e_ret.err = "none"
    /\ Len(e_ret.out) >= 10
    /\ SubSeq(e_ret.out, Len(e_ret.out) - 9, Len(e_ret.out)) = BZ_EOS_MAGIC \o <<0, 0, 0, 0>>

FailedAtEnd ==
    /\ e_pc = "done"
    /\ e_ret.err = "Bzip2Failed"
    /\ e_ret.why = "unexpected end of bzip2 data"
    /\ e_ret.out = <<>>
    /\ e_sink = <<>>

\* C17 as stated: when the inner loop has run out of input and the re-encoder
\* has returned, it has returned through the end-of-stream handling of the
\* outer loop: Ok, with the end-of-stream magic and 32 zero bits written last.
C17_EndsWithEndOfStream == ReturnedAfterTail => EndOfStreamWritten

\* C17: while a block is copied and fewer than 32 input bits remain, the
\* re-encoder copies what remains to its writer and leaves the inner loop for
\* the outer loop; the outer loop then ends the re-encoding with the error
\* Bzip2Failed (unexpected end of bzip2 data), its header read finding no
\* bits, and nothing reaches the sink.
C17_TailThenUnexpectedEnd ==
    /\ CopiesWhatRemains
    /\ [](ReturnedAfterTail => FailedAtEnd)
    /\ FewBitsLeft ~> FailedAtEnd

\* A payload cut off after one payload bit: it and the seven bits that fill
\* its byte are copied, then the header read fails
C17_Witness ==
    /\ ReturnedAfterTail
    /\ FailedAtEnd
    /\ e_in.ending = "none"
    /\ e_in.blocks = <<<<1>>>>
    /\ e_hdr = <<>>
    /\ WriterBits(e_w) = BitsOf(BZ_STREAM_HEADER \o BZ_BLOCK_MAGIC \o <<0, 0, 0, 0>>)
                            \o <<0>> \o <<1, 0, 0, 0, 0, 0, 0, 0>>

-----------------------------------------------------------------------------
(* A header that is neither marker *)

\* The last header read had its 32 bits, and they are neither marker
BadHeader == Len(e_hdr) = 4 /\ e_hdr # ALZ_BLOCK_MAGIC /\ e_hdr # ALZ_EOS_MAGIC

\* C18: when the 32 bits read at a header position are neither DLZ\1 nor
\* DLZ\2, alz_to_bzip2 has returned Bzip2Failed (expected ALZ block header),
\* and extract_bzip2 has written nothing to its writer.
C18_BadHeaderFails ==
    BadHeader =>
        /\ e_pc = "done"
        /\ e_ret.err = "Bzip2Failed"
        /\ e_ret.why = "expected ALZ block header"
        /\ e_sink = <<>>

\* A payload that begins with DLZ\3
C18_Witness ==
    /\ BadHeader
    /\ e_hdr = <<68, 76, 90, 3>>
    /\ e_in.blocks = <<>>
    /\ e_pc = "done"
    /\ e_w.data = BZ_STREAM_HEADER

-----------------------------------------------------------------------------
(* Termination of the DEFLATE extractor *)

\* The last call of the inflater neither consumed nor produced, and the loop
\* went on (input was left for it in the buffer)
Stalled ==
    /\ d_pc = "loop"
    /\ d_last.status \in {"Ok", "BufError"}
    /\ d_last.consumed = 0
    /\ d_last.produced = 0

\* The loop is left, with Ok, only through one of its two tests, and is left
\* as soon as one of them holds
StreamEnded == d_last.status = "StreamEnd"

NothingLeft == d_in_avail = 0 /\ d_remaining = 0 /\ d_last.produced = 0

LeftByItsTests ==
    /\ (d_pc = "done" /\ d_ret = "none") => (StreamEnded \/ NothingLeft)
    /\ (d_pc = "loop" /\ d_last.status # "none") => ~(StreamEnded \/ NothingLeft)

\* C19 as stated: extract_deflate returns, whatever the input and whatever the
\* inflater does.
C19_AlwaysTerminates == <>(d_pc = "done")

\* C19: extract_deflate returns for every input and every inflater that
\* produces finitely many bytes and whose every call consumes input or
\* produces output when input is left in the buffer; its loop ends on
\* StreamEnd, or as soon as the input buffer is empty, no compressed bytes
\* remain to be read and the last call produced nothing (or with the error of
\* a read or of the inflater).
C19_TerminatesUnlessStalled ==
    /\ []LeftByItsTests
    /\ <>(d_pc = "done" \/ Stalled)
    /\ [](d_pc = "done" => d_ret \in {"none", "Io", "InflateFailed"})

\* The loop left through its second test after the input came in three refills
C19_Witness ==
    /\ d_pc = "done"
    /\ d_ret = "none"
    /\ d_call.compressed_size = 3
    /\ d_call.buf = 1
    /\ d_last.status # "StreamEnd"
    /\ d_total_out = 2

\* The loop left on StreamEnd with input still in the buffer and to be read
C19_WitnessStreamEnd ==
    /\ d_pc = "done"
    /\ d_ret = "none"
    /\ d_last.status = "StreamEnd"
    /\ d_in_avail > 0
    /\ d_remaining > 0

\* A call that leaves the input where it is and produces nothing
C19_WitnessStall == Stalled /\ d_in_avail > 0

-----------------------------------------------------------------------------
(* The key stream of the payload *)

\* The payload of the entry of the call as the archive holds it
StoredPayload ==
    SubSeq(x_last.pre.rd.volumes[0].bytes, x_last.entry.data_pos + 1,
           x_last.entry.data_pos + x_last.entry.compressed_size)

\* The encryption header and the payload decrypted as one run of a cipher
\* made from the password of the call
OneRun == decrypt(ZipCryptoNew(x_last.password.val), x_last.entry.enc_check \o StoredPayload).data

\* A call on a stored file whose header check succeeded and whose payload was read
ValidatedStoredCall ==
    /\ RegularCall
    /\ x_last.header_ok
    /\ x_last.entry.compression_method.kind = "Store"
    /\ x_last.err \in {"none", "InvalidFileCrc"}

\* C20: when the header check has succeeded, the bytes the payload decrypts
\* to are those that follow the twelve header bytes in one run of a cipher
\* made from the password over the header and the payload: the first payload
\* byte takes the key stream byte after the header's twelve, and every later
\* byte the next one.
C20_PayloadContinuesKeyStream ==
    ValidatedStoredCall =>
        x_last.written = SubSeq(OneRun, ENCR_HEADER_LEN + 1,
                                ENCR_HEADER_LEN + x_last.entry.compressed_size)

\* A payload of two bytes
C20_Witness ==
    /\ ValidatedStoredCall
    /\ x_last.err = "none"
    /\ x_last.entry.compressed_size = 2
    /\ x_last.written = <<104, 104>>
    /\ StoredPayload # <<104, 104>>
    /\ StoredPayload[1] # StoredPayload[2]

-----------------------------------------------------------------------------
(* Where the parser puts data_pos and where it goes on scanning *)

\* The byte of the stream at virtual offset o (the stream of from_bytes is one
\* volume without header or tail)
StreamByte(o) == volumes[0].bytes[o + 1]

\* The offset after the file name (and the encryption header) of the local file
\* record whose signature is at offset p, counted from the record's own bytes
AfterName(p) ==
    LET name_len == StreamByte(p + 4) + 256 * StreamByte(p + 5)
        descriptor == StreamByte(p + 11)
        width == descriptor \div 16
        sizes == IF width = 0 THEN 0 ELSE 1 + 1 + 4 + width + width
        check == IF descriptor % 2 = 1 THEN 12 ELSE 0
    IN  p + 4 + 9 + sizes + name_len + check

\* The reader rd over a stream that differs in the bytes at offsets from..to-1
OtherPayload(rd, from, to) ==
    [rd EXCEPT !.volumes[0].bytes =
        [k \in 1..Len(@) |-> IF k > from /\ k <= to THEN (@[k] + 1) % 256 ELSE @[k]]]

\* The parser accepts the local file record whose signature it has just read
AcceptsRecord ==
    /\ p_pc = "scan"
    /\ ReadSig.ok
    /\ ReadSig.out = SIG_LOCAL_FILE_HEADER
    /\ p_pc' = "scan"

\* C21: a local file record that the parser accepts adds one entry at the end
\* of the table, its data_pos is the offset after the file name (after the 12
\* bytes of enc_check when the entry is encrypted), the reader is left at
\* data_pos + compressed_size, and the bytes of the payload have no part in
\* what the step returns.
C21_DataPosAndResume ==
    [][AcceptsRecord =>
        LET e == entries'[Len(entries')]
            other == read_local_file_header(
                         OtherPayload(ReadSig.rd, e.data_pos,
                                      e.data_pos + e.compressed_size),
                         entries, is_encrypted, is_data_descr)
        IN  /\ entries' = Append(entries, e)
            /\ e.data_pos = AfterName(virtual_pos)
            /\ virtual_pos' = e.data_pos + e.compressed_size
            /\ volumes'[cur_volume'].pos = virtual_pos'
            /\ other.err = "none"
            /\ other.entries = entries'
            /\ other.rd.virtual_pos = virtual_pos'
    ]_vars

\* Two records accepted one after the other, the second one encrypted, each
\* with a payload byte, and the reader behind the payload of the second
C21_Witness ==
    /\ p_pc = "scan"
    /\ Len(entries) = 2
    /\ entries[1].compressed_size = 1
    /\ entries[1].enc_check = <<>>
    /\ entries[2].compressed_size = 1
    /\ Len(entries[2].enc_check) = 12
    /\ entries[2].data_pos > entries[1].data_pos + 1
    /\ virtual_pos = entries[2].data_pos + 1

-----------------------------------------------------------------------------
(* The bytes of the archive an extraction reads *)

\* The reader is as the call found it: nothing was read and nothing sought
ReaderUntouched == ReaderOf(volumes, cur_volume, virtual_pos) = x_last.pre.rd

\* The reader stands n bytes behind data_pos of the entry of the call, the
\* bytes between being the ones that were read
ReadOfPayload(n) ==
    /\ virtual_pos = x_last.entry.data_pos + n
    /\ volumes[cur_volume].pos = virtual_pos

\* An extraction by the method kind of an entry with n bytes of payload that
\* is followed by another record, all n bytes read
ReadWholePayload(kind, n) ==
    /\ x_last.op = "extract"
    /\ x_last.err = "none"
    /\ x_last.entry.compression_method.kind = kind
    /\ x_last.entry.compressed_size = n
    /\ Len(entries) = 2
    /\ x_last.index = 1
    /\ ReadOfPayload(n)

\* C22: a call of extract_entry either leaves the reader untouched or leaves
\* it at most compressed_size bytes behind data_pos, having read the bytes from
\* data_pos to there: no byte outside data_pos .. data_pos + compressed_size - 1
\* is read, whatever the method.
C22_ReadsOnlyPayload ==
    x_last.op = "extract" =>
        \/ ReaderUntouched
        \/ \E n \in 0..x_last.entry.compressed_size : ReadOfPayload(n)

\* A DEFLATE entry in front of another record
C22_Witness == ReadWholePayload("Deflate", 1)

\* A stored entry of two bytes, and an ALZ-BZIP2 entry
C22_WitnessStore == ReadWholePayload("Store", 2)

C22_WitnessBzip2 == ReadWholePayload("Bzip2", 1)

-----------------------------------------------------------------------------
(* Volume files shorter than their bands *)

\* open was called on files of which one after the first holds fewer than the
\* 8 bytes of its header
ShortVolumeOpened ==
    /\ mv_last.op = "open"
    /\ \E i \in DOMAIN mv_last.sizes : i > 0 /\ mv_last.sizes[i] < MULTIVOL_HEAD_SIZE

\* C23: open on volume files of which one after the first is shorter than its
\* 8-byte header fails with CorruptedFile, and no volume of a reader that open
\* returned has a data_size that went below 0.
C23_ShortVolumeIsCorrupted ==
    /\ ShortVolumeOpened => (~mv_last.ok /\ mv_last.err = "CorruptedFile")
    /\ mv_pc = "open" => \A i \in DOMAIN volumes : data_size(volumes[i]) >= 0

\* What the code does: open returns a reader whose second volume has fewer
\* bytes than its header, with or without overflow checks
C23_OpensShortVolume ==
    /\ ShortVolumeOpened
    /\ mv_pc = "open"
    /\ mv_last.checks
    /\ data_size(volumes[1]) < 0

\* total_size of such a reader: smaller than the data of the first volume
\* without overflow checks, a panic with them
C23_TotalSizeWrapped ==
    /\ mv_pc = "open"
    /\ mv_last.op = "total_size"
    /\ mv_base < data_size(volumes[0])

C23_TotalSizePanics ==
    /\ mv_pc = "panicked"
    /\ mv_last.op = "total_size"

-----------------------------------------------------------------------------
(* What a seek that fails leaves behind *)

\* The step is a seek that returned an error
SeekFails == mv_last'.op = "seek" /\ ~mv_last'.ok

\* C24: a seek that fails leaves virtual_pos, cur_volume and the positions of
\* the volume files as they were, so that what follows goes on from the
\* position before the call.
C24_FailedSeekChangesNothing ==
    [][SeekFails =>
        /\ virtual_pos' = virtual_pos
        /\ cur_volume' = cur_volume
        /\ volumes' = volumes
    ]_vars

\* What the code does: after a seek past the end has failed, virtual_pos is
\* the offset that was refused, while the volume file stands where it stood
C24_PositionPastEnd ==
    /\ mv_pc = "open"
    /\ mv_last.op = "seek"
    /\ ~mv_last.ok
    /\ virtual_pos > total_size
    /\ volumes[cur_volume].pos <= volumes[cur_volume].file_size

\* and a read after it counts its bytes from that offset
C24_ReadCountsFromRefusedOffset ==
    /\ mv_pc = "open"
    /\ mv_last.op = "read"
    /\ mv_last.val > 0
    /\ virtual_pos > total_size

-----------------------------------------------------------------------------
(* Whether the decode loop of extract_bzip2 ends *)

\* The decoder returned a status that is neither an error nor StreamEnd,
\* with all of bz_data consumed before, nothing consumed and nothing produced
NoProgress ==
    /\ z_last.status \in {"Ok", "MemNeeded", "FlushOk", "FinishOk", "RunOk"}
    /\ z_last.consumed = 0
    /\ z_last.produced = 0
    /\ z_input_pos = z_len

\* C25: the decode loop of extract_bzip2 ends, whatever bz_data is and
\* whatever the decoder does, and a call that returns neither an error nor
\* StreamEnd, consumes nothing and produces nothing when the input is used up
\* is the last one.
C25_DecodeLoopTerminates ==
    /\ <>(z_pc = "done")
    /\ [](NoProgress => z_pc # "loop")

\* What the code does: after such a call with the status Ok the loop is at
\* its top again, as it was before the call
C25_BackAtTheTop ==
    /\ z_pc = "loop"
    /\ NoProgress
    /\ z_last.status = "Ok"

\* while the same call with the status MemNeeded ends the loop
C25_MemNeededEnds ==
    /\ z_pc = "done"
    /\ NoProgress
    /\ z_last.status = "MemNeeded"
    /\ z_ret.err = "none"

-----------------------------------------------------------------------------
(* The cipher after check_header and the cipher made anew *)

\* C26: the key check_header leaves in a cipher made from a password equals
\* the key of a fresh cipher made from the same password after decrypt over
\* the same 12 bytes, and both decrypt a payload to the same bytes.
C26_ReplayEqualsPostCheck ==
    /\ c_pc \in {"replayed", "payload"} => c_key1 = c_key2
    /\ c_pc = "payload" => c_plain = c_data

\* A two-byte password, a header an archiver made, a two-byte payload
C26_Witness ==
    /\ c_pc = "payload"
    /\ Len(c_pwd1) = MaxPwLen
    /\ c_key1 = c_key2
    /\ c_key1 # ZipCryptoNew(c_pwd1)
    /\ Len(c_data) = MaxDataLen
    /\ c_plain = c_data

-----------------------------------------------------------------------------
(* The file system after a call that was refused *)

RefusedCall == x_last.op = "extract" /\ x_last.err = "PathTraversal"

\* The directories the call made
DirectoriesMade == x_fs.dirs \ x_last.pre.fs.dirs

\* C27: when extract_entry returns PathTraversal the file system is as it was
\* before the call: no directory, file or link was made.
C27_RefusalLeavesFileSystem == RefusedCall => x_fs = x_last.pre.fs

\* What the code does: the parent of the destination path is made before the
\* resolved path is compared, here outside the destination directory
C27_DirectoryMadeOutside ==
    /\ RefusedCall
    /\ \E d \in DirectoriesMade : ~IsUnder(d, DEST_DIR)

\* and through the link that was in the destination directory
C27_DirectoryMadeThroughLink ==
    /\ RefusedCall
    /\ Append(OUTSIDE_DIR, <<100>>) \in DirectoriesMade

\* A symlink entry whose target is refused after its parent was made
C27_DirectoryMadeForSymlink ==
    /\ RefusedCall
    /\ is_symlink(x_last.entry)
    /\ Append(DEST_DIR, <<100>>) \in DirectoriesMade

\* A name with "../" is refused before anything is made
C27_RefusedByName ==
    /\ RefusedCall
    /\ NameHasDotDotSlash
    /\ ~x_last.pipe_mode
    /\ x_fs = x_last.pre.fs

-----------------------------------------------------------------------------
(* Opening an input without the ALZ header *)

\* The ALZ\1 signature was read before the i-th signature
AlzHeaderBefore(i) == \E j \in 1..(i - 1) : p_sigs[j] = SIG_ALZ_FILE_HEADER

\* C28: parse succeeds only if the ALZ\1 header was read, and an entry is
\* recorded only from a local file record read after the ALZ\1 header; an input
\* without the header, the empty one included, is not opened.
C28_OpensOnlyAfterAlzHeader ==
    /\ p_pc = "ok" => seen_alz_header
    /\ entries # <<>> =>
           \A i \in 1..Len(p_sigs) : p_sigs[i] = SIG_LOCAL_FILE_HEADER => AlzHeaderBefore(i)

\* What the code does: the empty input is opened, with no entry
C28_EmptyInputOpened ==
    /\ p_pc = "ok"
    /\ volumes[0].bytes = <<>>
    /\ ~seen_alz_header
    /\ entries = <<>>

\* an input of 2 bytes is opened
C28_ShortInputOpened ==
    /\ p_pc = "ok"
    /\ volumes[0].bytes = RecStray
    /\ p_sigs = <<>>

\* a local file record at the head of the input gives an entry of the archive
\* that is opened
C28_EntryWithoutHeader ==
    /\ p_pc = "ok"
    /\ ~seen_alz_header
    /\ p_sigs = <<SIG_LOCAL_FILE_HEADER>>
    /\ Len(entries) = 1

\* and so does one that is followed by the ALZ\1 header
C28_EntryBeforeHeader ==
    /\ p_pc = "ok"
    /\ seen_alz_header
    /\ p_sigs = <<SIG_LOCAL_FILE_HEADER, SIG_ALZ_FILE_HEADER>>
    /\ Len(entries) = 1

-----------------------------------------------------------------------------
(* The virtual position and the physical one *)

\* The data of the volumes before cur_volume
DataBefore == SumDataSize(volumes, Min(cur_volume, NumVolumes))

\* How far into its data the current volume's file stands; after the last
\* volume was used up read leaves cur_volume = volumes.len(), and there is none
InCurrent ==
    IF cur_volume < NumVolumes
    THEN volumes[cur_volume].pos - volumes[cur_volume].header_size
    ELSE 0

\* C29: after any sequence of reads and seeks that returned Ok, virtual_pos is
\* the sum of data_size over the volumes before cur_volume plus the physical
\* position in the current volume less its header, and it lies in 0..total_size.
C29_VirtualIsPhysical ==
    mv_pc = "open" =>
        /\ virtual_pos = DataBefore + InCurrent
        /\ 0 <= virtual_pos
        /\ virtual_pos <= total_size

\* a seek into the data of a volume after the first, then a read of its byte
C29_Witness ==
    /\ mv_pc = "open"
    /\ mv_last.op = "read"
    /\ mv_last.val = 1
    /\ mv_base = 1
    /\ NumVolumes = 2
    /\ cur_volume = 1
    /\ volumes[1].pos = MULTIVOL_HEAD_SIZE + 1
    /\ data_size(volumes[0]) = 1
    /\ virtual_pos = 2

\* a read that went over the border of two volumes
C29_WitnessAcross ==
    /\ mv_pc = "open"
    /\ mv_last.op = "read"
    /\ mv_last.val = 2
    /\ mv_base = 0
    /\ cur_volume = 1
    /\ data_size(volumes[0]) = 1
    /\ virtual_pos = 2

\* a seek to the border: the earlier volume is the current one, at its end
C29_WitnessBorder ==
    /\ mv_pc = "open"
    /\ mv_last.op = "seek"
    /\ mv_last.ok
    /\ NumVolumes = 2
    /\ cur_volume = 0
    /\ data_size(volumes[0]) = 1
    /\ data_size(volumes[1]) = 1
    /\ virtual_pos = 1

\* a read at the end of the last volume: no volume is current
C29_WitnessUsedUp ==
    /\ mv_pc = "open"
    /\ mv_last.op = "read"
    /\ cur_volume = NumVolumes
    /\ total_size = 2
    /\ virtual_pos = total_size

-----------------------------------------------------------------------------
(* extract_all *)

\* C30: extract_all calls extract_entry on the entries in archive order and
\* stops at the first call that fails, returning its error: no later entry is
\* extracted, and it returns Ok only if every entry was extracted.
C30_InOrderUntilFirstError ==
    x_all.pc # "idle" =>
        /\ Len(x_hist) <= Len(x_all.entries)
        /\ \A k \in 1..Len(x_hist) :
              /\ x_hist[k].index = k
              /\ x_hist[k].entry = x_all.entries[k]
              /\ k < Len(x_hist) => x_hist[k].err = "none"
        /\ (x_hist # <<>> /\ Last(x_hist).err # "none") =>
              x_all.pc = "done" /\ x_all.ret = Last(x_hist).err
        /\ (x_all.pc = "done" /\ x_all.ret # "none") =>
              x_hist # <<>> /\ Last(x_hist).err = x_all.ret
        /\ (x_all.pc = "done" /\ x_all.ret = "none") =>
              /\ Len(x_hist) = Len(x_all.entries)
              /\ \A k \in 1..Len(x_hist) : x_hist[k].err = "none"

\* the second of three entries fails: the third is not extracted, though it
\* could be
C30_Witness ==
    /\ x_all.pc = "done"
    /\ x_all.ret = "InvalidFileCrc"
    /\ Len(x_all.entries) = 3
    /\ Len(x_hist) = 2
    /\ x_hist[1].err = "none"
    /\ x_all.entries[3].file_name = <<98>>
    /\ ~x_all.pipe_mode
    /\ \A f \in x_fs.files : f.path # Append(DEST_DIR, <<98>>)

\* three entries, all extracted
C30_WitnessOk ==
    /\ x_all.pc = "done"
    /\ x_all.ret = "none"
    /\ Len(x_hist) = 3
    /\ ~x_all.pipe_mode
    /\ \E f \in x_fs.files : f.path = Append(DEST_DIR, <<98>>)

\* the first entry is refused
C30_WitnessFirst ==
    /\ x_all.pc = "done"
    /\ x_all.ret = "PathTraversal"
    /\ Len(x_all.entries) = 3
    /\ Len(x_hist) = 1

\* an archive without entries
C30_WitnessNone ==
    /\ x_all.pc = "done"
    /\ x_all.ret = "none"
    /\ x_all.entries = <<>>
    /\ x_hist = <<>>

====
